---- MODULE Spec2Model ----
(***************************************************************************)
(* Blokus engine: piece catalogue, board, placement rules, and the turn    *)
(* engine (Game + GameManager) of blokus-engine/src/blokus.                *)
(*                                                                         *)
(* A cell is a pair <<row, col>>.  A piece is a record                     *)
(* [piece_type, coords, orientation_id]; coords is a set of cells.         *)
(* Player ids are 0-based, grid values are 0 (empty) or player_id + 1.     *)
(***************************************************************************)
EXTENDS Integers, Sequences, FiniteSets, TLC

(***************************************************************************)
(* Bounds of the model.                                                    *)
(***************************************************************************)
\* Games are created with 2 .. MaxPlayers players.
MaxPlayers == 3
\* Players are constructed holding the first NumPieceTypes members of PieceType.
NumPieceTypes == 2

(***************************************************************************)
(* pieces.py                                                               *)
(***************************************************************************)
\* class PieceType, in declaration order.
PieceTypeOrder ==
    << "I1", "I2", "I3", "L3", "I4", "L4", "T4", "O4", "S4", "F", "I5",
       "L5", "N", "P", "T5", "U", "V", "W", "X", "Y", "Z" >>

PieceType == { PieceTypeOrder[i] : i \in DOMAIN PieceTypeOrder }

PIECE_SHAPES ==
    [ pt \in PieceType |->
        CASE pt = "I1" -> { <<0,0>> }
          [] pt = "I2" -> { <<0,0>>, <<0,1>> }
          [] pt = "I3" -> { <<0,0>>, <<0,1>>, <<0,2>> }
          [] pt = "L3" -> { <<0,0>>, <<0,1>>, <<1,0>> }
          [] pt = "I4" -> { <<0,0>>, <<0,1>>, <<0,2>>, <<0,3>> }
          [] pt = "L4" -> { <<0,0>>, <<1,0>>, <<2,0>>, <<2,1>> }
          [] pt = "T4" -> { <<0,1>>, <<1,0>>, <<1,1>>, <<1,2>> }
          [] pt = "O4" -> { <<0,0>>, <<0,1>>, <<1,0>>, <<1,1>> }
          [] pt = "S4" -> { <<0,0>>, <<0,1>>, <<1,1>>, <<1,2>> }
          [] pt = "F"  -> { <<0,1>>, <<0,2>>, <<1,0>>, <<1,1>>, <<2,1>> }
          [] pt = "I5" -> { <<0,0>>, <<0,1>>, <<0,2>>, <<0,3>>, <<0,4>> }
          [] pt = "L5" -> { <<0,0>>, <<1,0>>, <<2,0>>, <<3,0>>, <<3,1>> }
          [] pt = "N"  -> { <<0,0>>, <<1,0>>, <<1,1>>, <<2,1>>, <<3,1>> }
          [] pt = "P"  -> { <<0,0>>, <<0,1>>, <<1,0>>, <<1,1>>, <<2,0>> }
          [] pt = "T5" -> { <<0,0>>, <<0,1>>, <<0,2>>, <<1,1>>, <<2,1>> }
          [] pt = "U"  -> { <<0,0>>, <<0,2>>, <<1,0>>, <<1,1>>, <<1,2>> }
          [] pt = "V"  -> { <<0,0>>, <<1,0>>, <<2,0>>, <<2,1>>, <<2,2>> }
          [] pt = "W"  -> { <<0,0>>, <<1,0>>, <<1,1>>, <<2,1>>, <<2,2>> }
          [] pt = "X"  -> { <<0,1>>, <<1,0>>, <<1,1>>, <<1,2>>, <<2,1>> }
          [] pt = "Y"  -> { <<0,1>>, <<1,0>>, <<1,1>>, <<2,1>>, <<3,1>> }
          [] pt = "Z"  -> { <<0,0>>, <<0,1>>, <<1,1>>, <<2,1>>, <<2,2>> } ]

SetMin(S) == CHOOSE x \in S : \A y \in S : x <= y
SetMax(S) == CHOOSE x \in S : \A y \in S : x >= y

_normalize_coords(coords) ==
    IF coords = {} THEN {}
    ELSE LET min_row == SetMin({ rc[1] : rc \in coords })
             min_col == SetMin({ rc[2] : rc \in coords })
         IN  { << rc[1] - min_row, rc[2] - min_col >> : rc \in coords }

_rotate_90(coords) ==
    _normalize_coords({ << rc[2], 0 - rc[1] >> : rc \in coords })

_flip_horizontal_unmirrored(coords) == _normalize_coords(coords)

_flip_horizontal(coords) ==
    IF coords = {} THEN {}
    ELSE LET max_col == SetMax({ rc[2] : rc \in coords })
         IN  _normalize_coords({ << rc[1], max_col - rc[2] >> : rc \in coords })

\* Append x unless it is already a member: the set.add of the source.  The
\* source collects the orientations in a set and returns list(orientations),
\* whose order follows the hashes of the members; the members are listed here
\* in the order of their first insertion, so an orientation id may name another
\* member of the same family than it does in a CPython build.  The members and
\* their number are the same.
AddUnique(seq, x) ==
    IF \E i \in DOMAIN seq : seq[i] = x THEN seq ELSE Append(seq, x)

\* One "for _ in range(4)" loop of _generate_all_orientations: add the current
\* orientation, rotate, k times over.
RECURSIVE RotateLoop(_, _, _)
RotateLoop(orientations, current, k) ==
    IF k = 0 THEN orientations
    ELSE RotateLoop(AddUnique(orientations, current), _rotate_90(current), k - 1)

_generate_all_orientations(base_coords) ==
    RotateLoop(RotateLoop(<< >>, _normalize_coords(base_coords), 4),
               _flip_horizontal(_normalize_coords(base_coords)), 4)

\* PIECES: piece type -> sequence of Piece (1-based here, orientation_id 0-based).
PIECES ==
    [ pt \in PieceType |->
        LET orientations == _generate_all_orientations(PIECE_SHAPES[pt])
        IN  [ i \in DOMAIN orientations |->
                [ piece_type |-> pt, coords |-> orientations[i],
                  orientation_id |-> i - 1 ] ] ]

num_orientations(piece_type) == Len(PIECES[piece_type])

get_piece(piece_type, orientation) ==
    PIECES[piece_type][(orientation % num_orientations(piece_type)) + 1]

\* Piece.size
PieceSize(piece) == Cardinality(piece.coords)

\* Piece.translate
translate(piece, row_offset, col_offset) ==
    { << rc[1] + row_offset, rc[2] + col_offset >> : rc \in piece.coords }

(***************************************************************************)
(* board.py                                                                *)
(***************************************************************************)
BOARD_SIZE == 20

STARTING_CORNERS ==
    [ p \in 0..3 |->
        CASE p = 0 -> << 0, 0 >>
          [] p = 1 -> << 0, BOARD_SIZE - 1 >>
          [] p = 2 -> << BOARD_SIZE - 1, BOARD_SIZE - 1 >>
          [] p = 3 -> << BOARD_SIZE - 1, 0 >> ]

DUO_STARTING_CORNERS ==
    [ p \in 0..1 |-> IF p = 0 THEN << 4, 4 >> ELSE << 9, 9 >> ]

\* Variant: the Duo branch is missing, size 14 gets the four board corners.
get_starting_corners_for_size_no_duo(sz) ==
    [ p \in 0..3 |->
        CASE p = 0 -> << 0, 0 >>
          [] p = 1 -> << 0, sz - 1 >>
          [] p = 2 -> << sz - 1, sz - 1 >>
          [] p = 3 -> << sz - 1, 0 >> ]

get_starting_corners_for_size(sz) ==
    IF sz = 14
    THEN DUO_STARTING_CORNERS
    ELSE [ p \in 0..3 |->
            CASE p = 0 -> << 0, 0 >>
              [] p = 1 -> << 0, sz - 1 >>
              [] p = 2 -> << sz - 1, sz - 1 >>
              [] p = 3 -> << sz - 1, 0 >> ]

\* The grid of a new Board(size): np.zeros((size, size)).
EmptyGrid(sz) == [ rc \in (0..(sz - 1)) \X (0..(sz - 1)) |-> 0 ]

\* Board.is_valid_position
is_valid_position(sz, row, col) ==
    0 <= row /\ row < sz /\ 0 <= col /\ col < sz

\* Board.is_empty
is_empty(g, sz, row, col) ==
    IF ~ is_valid_position(sz, row, col) THEN FALSE ELSE g[<< row, col >>] = 0

\* Board.get_starting_corners
get_starting_corners(sz, player_id) ==
    LET starting_corners == get_starting_corners_for_size(sz)
    IN  IF player_id \in DOMAIN starting_corners
        THEN { starting_corners[player_id] }
        ELSE {}

\* Variant: the piece is written onto a fresh grid, dropping what was there.
place_piece_fresh_grid(g, sz, piece, row, col, player_id) ==
    LET positions == translate(piece, row, col)
    IN  IF \E rc \in positions :
               ~ is_valid_position(sz, rc[1], rc[2]) \/ ~ is_empty(g, sz, rc[1], rc[2])
        THEN [ ok |-> FALSE, grid |-> g ]
        ELSE [ ok |-> TRUE,
               grid |-> [ rc \in DOMAIN g |->
                            IF rc \in positions THEN player_id + 1 ELSE 0 ] ]

\* Variant: check and write share one loop, so the cells that pass are written
\* even when another cell of the piece fails.
place_piece_write_as_checked(g, sz, piece, row, col, player_id) ==
    LET positions == translate(piece, row, col)
        good == { rc \in positions :
                    is_valid_position(sz, rc[1], rc[2]) /\ is_empty(g, sz, rc[1], rc[2]) }
    IN  [ ok |-> good = positions,
          grid |-> [ rc \in DOMAIN g |->
                       IF rc \in good THEN player_id + 1 ELSE g[rc] ] ]

\* Board.place_piece: [ok |-> the returned bool, grid |-> the grid afterwards].
place_piece(g, sz, piece, row, col, player_id) ==
    LET positions == translate(piece, row, col)
    IN  IF \E rc \in positions :
               ~ is_valid_position(sz, rc[1], rc[2]) \/ ~ is_empty(g, sz, rc[1], rc[2])
        THEN [ ok |-> FALSE, grid |-> g ]
        ELSE [ ok |-> TRUE,
               grid |-> [ rc \in DOMAIN g |->
                            IF rc \in positions THEN player_id + 1 ELSE g[rc] ] ]

\* Board.get_player_cells
get_player_cells(g, player_id) == { rc \in DOMAIN g : g[rc] = player_id + 1 }

DiagonalSteps == { << 0 - 1, 0 - 1 >>, << 0 - 1, 1 >>, << 1, 0 - 1 >>, << 1, 1 >> }
EdgeSteps == { << 0 - 1, 0 >>, << 1, 0 >>, << 0, 0 - 1 >>, << 0, 1 >> }

\* Board.get_player_corners
get_player_corners(g, sz, player_id) ==
    LET player_cells == get_player_cells(g, player_id)
    IN  IF player_cells = {}
        THEN get_starting_corners(sz, player_id)
        ELSE { n \in { << rc[1] + d[1], rc[2] + d[2] >> :
                         rc \in player_cells, d \in DiagonalSteps } :
                 /\ is_valid_position(sz, n[1], n[2])
                 /\ is_empty(g, sz, n[1], n[2])
                 /\ ~ \E e \in EdgeSteps :
                        << n[1] + e[1], n[2] + e[2] >> \in player_cells }

\* Board.get_player_edges
get_player_edges(g, sz, player_id) ==
    LET player_cells == get_player_cells(g, player_id)
    IN  { n \in { << rc[1] + d[1], rc[2] + d[2] >> :
                    rc \in player_cells, d \in EdgeSteps } :
            is_valid_position(sz, n[1], n[2]) /\ n \notin player_cells }

\* Board.count_occupied
count_occupied(g) == Cardinality({ rc \in DOMAIN g : g[rc] # 0 })

(***************************************************************************)
(* rules.py                                                                *)
(***************************************************************************)
\* The starting corner the validator looks up:
\* board.starting_corners.get(player_id) or STARTING_CORNERS.get(player_id).
\* The result is a set with at most one cell (empty: None).
ValidatorStartingCorner(sz, player_id) ==
    LET starting_corners == get_starting_corners_for_size(sz)
    IN  IF player_id \in DOMAIN starting_corners
        THEN { starting_corners[player_id] }
        ELSE IF player_id \in DOMAIN STARTING_CORNERS
             THEN { STARTING_CORNERS[player_id] }
             ELSE {}

\* Variant: rule 3 (no edge contact with own pieces) is missing.
get_placement_rejection_reason_no_edge_rule(g, sz, piece, row, col, player_id, is_first_move) ==
    LET positions == translate(piece, row, col)
        bad == { rc \in positions :
                   ~ is_valid_position(sz, rc[1], rc[2]) \/ g[rc] # 0 }
        player_cells == get_player_cells(g, player_id)
    IN  IF bad # {}
        THEN "out of bounds or occupied"
        ELSE IF is_first_move \/ player_cells = {}
        THEN IF get_starting_corners_for_size(sz)[player_id] \notin positions
             THEN "first move must cover starting corner"
             ELSE "none"
        ELSE IF \A a \in positions, b \in player_cells :
                   ~ ( /\ (a[1] = b[1] + 1 \/ b[1] = a[1] + 1)
                       /\ (a[2] = b[2] + 1 \/ b[2] = a[2] + 1) )
        THEN "no diagonal corner"
        ELSE "none"

\* get_placement_rejection_reason: "none" stands for None.  The first loop stops
\* at the first offending cell in the iteration order of piece.coords; the
\* reason then names that cell's defect.
get_placement_rejection_reason(g, sz, piece, row, col, player_id, is_first_move) ==
    LET positions == translate(piece, row, col)
        bad == { rc \in positions :
                   ~ is_valid_position(sz, rc[1], rc[2]) \/ g[rc] # 0 }
        player_cells == get_player_cells(g, player_id)
        starting_corner == ValidatorStartingCorner(sz, player_id)
    IN  IF bad # {}
        THEN LET first == CHOOSE rc \in bad : TRUE
             IN  IF ~ is_valid_position(sz, first[1], first[2])
                 THEN "out of bounds"
                 ELSE "already occupied"
        ELSE IF is_first_move \/ player_cells = {}
        THEN IF starting_corner = {}
             THEN "no starting corner"
             ELSE IF starting_corner \cap positions = {}
                  THEN "first move must cover starting corner"
                  ELSE "none"
        ELSE IF positions \cap get_player_edges(g, sz, player_id) # {}
        THEN "touches own pieces by edge"
        ELSE IF positions \cap get_player_corners(g, sz, player_id) = {}
        THEN "no diagonal corner"
        ELSE "none"

is_valid_placement(g, sz, piece, row, col, player_id, is_first_move) ==
    get_placement_rejection_reason(g, sz, piece, row, col, player_id, is_first_move)
        = "none"

\* Variant: the candidate anchors are returned without being validated.
get_valid_placements_unchecked(g, sz, piece, player_id, is_first_move) ==
    LET starting_corners == get_starting_corners_for_size(sz)
    IN  IF is_first_move \/ get_player_cells(g, player_id) = {}
        THEN IF player_id \notin DOMAIN starting_corners
             THEN {}
             ELSE { << starting_corners[player_id][1] - rc[1],
                       starting_corners[player_id][2] - rc[2] >> : rc \in piece.coords }
        ELSE { << corner[1] - rc[1], corner[2] - rc[2] >> :
                 corner \in get_player_corners(g, sz, player_id),
                 rc \in piece.coords }

\* Variant: only the piece's own anchor is tried at the starting corner and
\* at each corner, not every cell of the piece.
get_valid_placements_anchor_only(g, sz, piece, player_id, is_first_move) ==
    LET starting_corners == get_starting_corners_for_size(sz)
    IN  IF is_first_move \/ get_player_cells(g, player_id) = {}
        THEN IF player_id \notin DOMAIN starting_corners
             THEN {}
             ELSE { pos \in { starting_corners[player_id] } :
                      is_valid_placement(g, sz, piece, pos[1], pos[2], player_id, TRUE) }
        ELSE { pos \in get_player_corners(g, sz, player_id) :
                 is_valid_placement(g, sz, piece, pos[1], pos[2], player_id, FALSE) }

get_valid_placements(g, sz, piece, player_id, is_first_move) ==
    LET starting_corners == get_starting_corners_for_size(sz)
    IN  IF is_first_move \/ get_player_cells(g, player_id) = {}
        THEN IF player_id \notin DOMAIN starting_corners
             THEN {}
             ELSE LET starting_corner == starting_corners[player_id]
                  IN  { pos \in { << starting_corner[1] - rc[1],
                                     starting_corner[2] - rc[2] >> : rc \in piece.coords } :
                          is_valid_placement(g, sz, piece, pos[1], pos[2], player_id, TRUE) }
        ELSE { pos \in { << corner[1] - rc[1], corner[2] - rc[2] >> :
                           corner \in get_player_corners(g, sz, player_id),
                           rc \in piece.coords } :
                 is_valid_placement(g, sz, piece, pos[1], pos[2], player_id, FALSE) }

(***************************************************************************)
(* State: one Game (game.py) with its Board, its Players (player.py) and   *)
(* its GameManager (game_manager.py).                                      *)
(***************************************************************************)
VARIABLES
    size,                       \* Board.size
    grid,                       \* Board.grid
    num_players,                \* len(GameManager.players)
    remaining_pieces,           \* Player.remaining_pieces, per player
    has_passed,                 \* Player.has_passed, per player
    last_piece_was_monomino,    \* Player.last_piece_was_monomino, per player
    current_player_index,       \* GameManager.current_player_index
    game_finished,              \* GameManager.game_finished
    move_history,               \* Game.move_history
    status,                     \* Game.status
    call,                       \* the last call made and the return site it left by
    copied,                     \* the game Game.copy() returned, if any: << >> or << game >>
    args,                       \* the arguments of a function called on its own, << >> if none
    result,                     \* what that function returned, << >> before the call
    env,                        \* the BlokusEnv that holds the game, << >> if there is none
    buffer,                     \* the ReplayBuffer, << >> if there is none
    agent                       \* the DQNAgent that owns the buffer, << >> if there is none

vars ==
    << size, grid, num_players, remaining_pieces, has_passed,
       last_piece_was_monomino, current_player_index, game_finished,
       move_history, status, call, copied, args, result, env, buffer, agent >>

\* What lies outside the one Game and is left alone by the calls made on it.
others == << copied, args, result, env, buffer, agent >>

IN_PROGRESS == "in_progress"
FINISHED == "finished"

Players == 0..(num_players - 1)

\* Board sizes a game is created with under Spec: Board(size) takes any size and
\* treats every size but 14 alike.
BoardSizes == 2..3

\* The size that selects the Duo starting corners.
DuoSize == 14

\* Rows and columns callers anchor a move at: every one on the small boards; on
\* the Duo board the board's origin and the rows and columns at and next to the
\* two starting corners.
Anchors == IF size = DuoSize THEN { 0, 4, 5, 8, 9 } ELSE 0..(size - 1)

\* The piece types players are constructed with.
InitialPieces == { PieceTypeOrder[i] : i \in 1..NumPieceTypes }

\* Every Move a caller may hand to play_move.
Moves ==
    UNION { [ player_id : Players, piece_type : { pt },
              orientation : 0..(num_orientations(pt) - 1),
              row : Anchors, col : Anchors ] : pt \in InitialPieces }

\* Move.get_piece
MovePiece(move) == get_piece(move.piece_type, move.orientation)

\* Variant: a move is a first move while fewer turns than the player's seat
\* number plus one have been played.
is_first_move_by_turn_number(history, player_id) == Len(history) <= player_id

\* Game.is_first_move
is_first_move(history, player_id) ==
    ~ \E i \in DOMAIN history : history[i].player_id = player_id

\* Game.get_valid_moves, as the set of the Moves in the returned list.
get_valid_moves(g, sz, remaining, history, player_id) ==
    LET is_first == is_first_move(history, player_id)
    IN  UNION { UNION { { [ player_id |-> player_id, piece_type |-> pt,
                            orientation |-> PIECES[pt][i].orientation_id,
                            row |-> pos[1], col |-> pos[2] ] :
                          pos \in get_valid_placements(g, sz, PIECES[pt][i],
                                                       player_id, is_first) } :
                        i \in DOMAIN PIECES[pt] } :
                pt \in remaining[player_id] }

\* Variant: the check of whose turn it is is missing.
is_valid_move_site_any_turn(g, sz, remaining, history, current, move) ==
    IF move.piece_type \notin remaining[move.player_id]
    THEN "piece not available"
    ELSE IF is_valid_placement(g, sz, MovePiece(move), move.row, move.col,
                               move.player_id, is_first_move(history, move.player_id))
    THEN "valid"
    ELSE "placement rejected"

\* Game.is_valid_move, as the return statement it leaves by:
\* "piece not available", "not current player", or the placement verdict
\* ("placement rejected" / "valid").
is_valid_move_site(g, sz, remaining, history, current, move) ==
    IF move.piece_type \notin remaining[move.player_id]
    THEN "piece not available"
    ELSE IF move.player_id # current
    THEN "not current player"
    ELSE IF is_valid_placement(g, sz, MovePiece(move), move.row, move.col,
                               move.player_id, is_first_move(history, move.player_id))
    THEN "valid"
    ELSE "placement rejected"

is_valid_move(g, sz, remaining, history, current, move) ==
    is_valid_move_site(g, sz, remaining, history, current, move) = "valid"

\* The while loop of GameManager.next_turn, from the given index on.
RECURSIVE next_turn_loop(_, _, _, _, _)
next_turn_loop(passed, n, index, attempts, finished) ==
    IF attempts < n
    THEN LET next_index == (index + 1) % n
         IN  IF ~ passed[next_index]
             THEN [ current_player_index |-> next_index, game_finished |-> finished ]
             ELSE next_turn_loop(passed, n, next_index, attempts + 1, finished)
    ELSE [ current_player_index |-> index, game_finished |-> TRUE ]

\* Variant: the turn goes to the next seat whether or not that player has passed.
next_turn_no_skip(passed, n, index, finished) ==
    [ current_player_index |-> (index + 1) % n, game_finished |-> finished ]

\* GameManager.next_turn
next_turn(passed, n, index, finished) == next_turn_loop(passed, n, index, 0, finished)

\* Variant: the game is over as soon as one player has passed.
is_game_over_any_passed(passed, n, finished) == finished \/ \E p \in 0..(n - 1) : passed[p]

\* GameManager.is_game_over
is_game_over(passed, n, finished) ==
    finished \/ \A p \in 0..(n - 1) : passed[p]

\* Game._check_game_over
_check_game_over(passed, n) == \A p \in 0..(n - 1) : passed[p]

\* The end of Game._next_turn, from game_manager.next_turn() on, with the passed
\* flags as the auto-pass has left them.
_next_turn_advance(passed, n, index, finished, st) ==
    LET nt == next_turn(passed, n, index, finished)
    IN  [ has_passed |-> passed,
          current_player_index |-> nt.current_player_index,
          game_finished |-> nt.game_finished,
          status |-> IF is_game_over(passed, n, nt.game_finished)
                     THEN FINISHED ELSE st ]

\* Game._next_turn: the fields it may change.
_next_turn(g, sz, n, remaining, passed, history, index, finished, st) ==
    IF _check_game_over(passed, n)
    THEN [ has_passed |-> passed, current_player_index |-> index,
           game_finished |-> finished, status |-> FINISHED ]
    ELSE _next_turn_advance(
             IF /\ ~ passed[index]
                /\ remaining[index] # {}
                /\ get_valid_moves(g, sz, remaining, history, index) = {}
             THEN [ passed EXCEPT ![index] = TRUE ]
             ELSE passed,
             n, index, finished, st)

\* Player.squares_remaining
RECURSIVE SumSizes(_)
SumSizes(pts) ==
    IF pts = {} THEN 0
    ELSE LET pt == CHOOSE x \in pts : TRUE
         IN  PieceSize(PIECES[pt][1]) + SumSizes(pts \ { pt })

squares_remaining(remaining, player_id) == SumSizes(remaining[player_id])

\* Variant: the monomino bonus is granted without looking at the flag.
get_scores_bonus_unconditional(remaining, mono, n) ==
    [ p \in 0..(n - 1) |->
        (0 - squares_remaining(remaining, p))
        + (IF Cardinality(remaining[p]) = 0 THEN 15 + 5 ELSE 0) ]

\* Game.get_scores
get_scores(remaining, mono, n) ==
    [ p \in 0..(n - 1) |->
        (0 - squares_remaining(remaining, p))
        + (IF Cardinality(remaining[p]) = 0
           THEN 15 + (IF mono[p] THEN 5 ELSE 0)
           ELSE 0) ]

\* The value get_winner returns for None.
NoWinner == 0 - 1

\* Variant: among tied players the first one is picked.
get_winner_first_of_tied(scores, n) ==
    CHOOSE i \in 0..(n - 1) :
        /\ \A j \in 0..(n - 1) : scores[j] <= scores[i]
        /\ \A j \in 0..(i - 1) : scores[j] < scores[i]

\* Game.get_winner
get_winner(scores, n) ==
    LET max_score == CHOOSE m \in { scores[i] : i \in 0..(n - 1) } :
                         \A i \in 0..(n - 1) : scores[i] <= m
        winners == { i \in 0..(n - 1) : scores[i] = max_score }
    IN  IF Cardinality(winners) = 1
        THEN CHOOSE i \in winners : TRUE
        ELSE NoWinner

(***************************************************************************)
(* Construction: Game(board=Board(size), players=[...]) with every player  *)
(* holding InitialPieces, nobody passed, player 0 to move.                 *)
(***************************************************************************)
Init ==
    /\ size \in BoardSizes
    /\ grid = EmptyGrid(size)
    /\ num_players \in 2..MaxPlayers
    /\ remaining_pieces = [ p \in 0..(num_players - 1) |-> InitialPieces ]
    /\ has_passed = [ p \in 0..(num_players - 1) |-> FALSE ]
    /\ last_piece_was_monomino = [ p \in 0..(num_players - 1) |-> FALSE ]
    /\ current_player_index = 0
    /\ game_finished = FALSE
    /\ move_history = << >>
    /\ status = IN_PROGRESS
    /\ call = [ op |-> "new", by |-> 0, ret |-> "ok" ]
    /\ copied = << >>
    /\ args = << >>
    /\ result = << >>
    /\ env = << >>
    /\ buffer = << >>
    /\ agent = << >>

\* The fields Game._next_turn has computed, written back.
SetTurn(nt) ==
    /\ has_passed' = nt.has_passed
    /\ current_player_index' = nt.current_player_index
    /\ game_finished' = nt.game_finished
    /\ status' = nt.status

\* The assignments that end play_move, pass_turn and force_pass: Game._next_turn.
AdvanceTurn(g, remaining, passed, history) ==
    SetTurn(_next_turn(g, size, num_players, remaining, passed, history,
                       current_player_index, game_finished, status))

\* Game.play_move leaving by one of its "return False" statements: nothing but
\* the record of the call changes.
play_move_rejected(by, site) ==
    /\ call' = [ op |-> "play_move", by |-> by, ret |-> site ]
    /\ UNCHANGED << size, grid, num_players, remaining_pieces, has_passed,
                    last_piece_was_monomino, current_player_index,
                    game_finished, move_history, status >>

\* Game.play_move
play_move(move) ==
    LET site == is_valid_move_site(grid, size, remaining_pieces, move_history,
                                   current_player_index, move)
        placed == place_piece(grid, size, MovePiece(move), move.row, move.col,
                              move.player_id)
    IN  IF site # "valid"
        THEN play_move_rejected(move.player_id, site)
        ELSE IF ~ placed.ok
        THEN play_move_rejected(move.player_id, "board placement failed")
        ELSE LET remaining2 == [ remaining_pieces EXCEPT
                                   ![move.player_id] = @ \ { move.piece_type } ]
                 history2 == Append(move_history, move)
             IN  /\ grid' = placed.grid
                 /\ remaining_pieces' = remaining2
                 /\ last_piece_was_monomino' =
                        [ last_piece_was_monomino EXCEPT
                            ![move.player_id] = (move.piece_type = "I1") ]
                 /\ move_history' = history2
                 /\ AdvanceTurn(placed.grid, remaining2, has_passed, history2)
                 /\ call' = [ op |-> "play_move", by |-> move.player_id, ret |-> "ok" ]
                 /\ UNCHANGED << size, num_players >>

\* Game.pass_turn
pass_turn ==
    /\ AdvanceTurn(grid, remaining_pieces,
                   [ has_passed EXCEPT ![current_player_index] = TRUE ], move_history)
    /\ call' = [ op |-> "pass_turn", by |-> current_player_index, ret |-> "ok" ]
    /\ UNCHANGED << size, grid, num_players, remaining_pieces,
                    last_piece_was_monomino, move_history, others >>

\* Game.force_pass
force_pass ==
    /\ AdvanceTurn(grid, remaining_pieces,
                   [ has_passed EXCEPT ![current_player_index] = TRUE ], move_history)
    /\ call' = [ op |-> "force_pass", by |-> current_player_index, ret |-> "ok" ]
    /\ UNCHANGED << size, grid, num_players, remaining_pieces,
                    last_piece_was_monomino, move_history, others >>

\* The Moves that is_valid_move accepts in the current state.
AcceptedMoves ==
    { move \in Moves :
        is_valid_move(grid, size, remaining_pieces, move_history,
                      current_player_index, move) }

\* The (player_id, return site) pairs of the Moves that play_move rejects in the
\* current state.
RejectedOutcomes ==
    { << move.player_id,
         is_valid_move_site(grid, size, remaining_pieces, move_history,
                            current_player_index, move) >> : move \in Moves }
      \ { << p, "valid" >> : p \in Players }

\* A call play_move(move) for any move of Moves.  Rejected calls that leave the
\* same record are one step.
PlayMoveAccepted ==
    \E move \in AcceptedMoves : play_move(move) /\ UNCHANGED others

PlayMoveRejected ==
    \E r \in RejectedOutcomes : play_move_rejected(r[1], r[2]) /\ UNCHANGED others

Next ==
    \/ PlayMoveAccepted
    \/ PlayMoveRejected
    \/ pass_turn
    \/ force_pass

Spec == Init /\ [][Next]_vars

\* Games on the small boards as under Spec, and two-player games on the
\* 14 x 14 Duo board.
InitDuo ==
    /\ size \in BoardSizes \cup { DuoSize }
    /\ grid = EmptyGrid(size)
    /\ num_players \in (IF size = DuoSize THEN { 2 } ELSE 2..MaxPlayers)
    /\ remaining_pieces = [ p \in 0..(num_players - 1) |-> InitialPieces ]
    /\ has_passed = [ p \in 0..(num_players - 1) |-> FALSE ]
    /\ last_piece_was_monomino = [ p \in 0..(num_players - 1) |-> FALSE ]
    /\ current_player_index = 0
    /\ game_finished = FALSE
    /\ move_history = << >>
    /\ status = IN_PROGRESS
    /\ call = [ op |-> "new", by |-> 0, ret |-> "ok" ]
    /\ copied = << >>
    /\ args = << >>
    /\ result = << >>
    /\ env = << >>
    /\ buffer = << >>
    /\ agent = << >>

SpecDuo == InitDuo /\ [][Next]_vars

(***************************************************************************)
(* Direct use of a Board: Board(size).place_piece(piece, row, col,          *)
(* player_id) with any piece, any anchor one step around the board and any  *)
(* player id, with no rule check in front of it.                            *)
(***************************************************************************)
BoardAnchors == (0 - 1)..size

board_place_piece(piece, row, col, player_id) ==
    LET placed == place_piece(grid, size, piece, row, col, player_id)
    IN  /\ grid' = placed.grid
        /\ call' = [ op |-> "place_piece", by |-> player_id,
                     ret |-> IF placed.ok THEN "ok" ELSE "failed" ]
        /\ UNCHANGED << size, num_players, remaining_pieces, has_passed,
                        last_piece_was_monomino, current_player_index,
                        game_finished, move_history, status, others >>

InitBoard ==
    /\ size = 2
    /\ grid = EmptyGrid(size)
    /\ num_players = 2
    /\ remaining_pieces = [ p \in 0..(num_players - 1) |-> InitialPieces ]
    /\ has_passed = [ p \in 0..(num_players - 1) |-> FALSE ]
    /\ last_piece_was_monomino = [ p \in 0..(num_players - 1) |-> FALSE ]
    /\ current_player_index = 0
    /\ game_finished = FALSE
    /\ move_history = << >>
    /\ status = IN_PROGRESS
    /\ call = [ op |-> "new", by |-> 0, ret |-> "ok" ]
    /\ copied = << >>
    /\ args = << >>
    /\ result = << >>
    /\ env = << >>
    /\ buffer = << >>
    /\ agent = << >>

BoardPlacePiece ==
    \E pt \in InitialPieces, row \in BoardAnchors, col \in BoardAnchors,
       player_id \in Players :
        \E i \in DOMAIN PIECES[pt] :
            board_place_piece(PIECES[pt][i], row, col, player_id)

NextBoard == BoardPlacePiece

SpecBoard == InitBoard /\ [][NextBoard]_vars

(***************************************************************************)
(* Game.copy(): a second Game beside the first, each played on its own.    *)
(***************************************************************************)
\* Player.__post_init__: an empty remaining set is filled with every piece type.
Player_post_init(remaining) == IF remaining = {} THEN PieceType ELSE remaining

\* The Game the variables hold, as one value.
ThisGame ==
    [ size |-> size, grid |-> grid, num_players |-> num_players,
      remaining_pieces |-> remaining_pieces, has_passed |-> has_passed,
      last_piece_was_monomino |-> last_piece_was_monomino,
      current_player_index |-> current_player_index,
      game_finished |-> game_finished, move_history |-> move_history,
      status |-> status ]

\* Game.copy: new Player objects (through Player.__post_init__), a new
\* GameManager, a copied board and a copied history.
Game_copy(game) ==
    [ game EXCEPT
        !.remaining_pieces =
            [ p \in DOMAIN game.remaining_pieces |->
                Player_post_init(game.remaining_pieces[p]) ] ]

\* Game._next_turn on a Game held as a value.
GameNextTurn(game) ==
    LET nt == _next_turn(game.grid, game.size, game.num_players,
                         game.remaining_pieces, game.has_passed,
                         game.move_history, game.current_player_index,
                         game.game_finished, game.status)
    IN  [ game EXCEPT !.has_passed = nt.has_passed,
                      !.current_player_index = nt.current_player_index,
                      !.game_finished = nt.game_finished,
                      !.status = nt.status ]

\* Game.play_move on a Game held as a value: the Game afterwards.
GameAfterMove(game, move) ==
    IF /\ is_valid_move(game.grid, game.size, game.remaining_pieces,
                        game.move_history, game.current_player_index, move)
       /\ place_piece(game.grid, game.size, MovePiece(move), move.row, move.col,
                      move.player_id).ok
    THEN GameNextTurn(
             [ game EXCEPT
                 !.grid = place_piece(game.grid, game.size, MovePiece(move),
                                      move.row, move.col, move.player_id).grid,
                 !.remaining_pieces[move.player_id] = @ \ { move.piece_type },
                 !.last_piece_was_monomino[move.player_id] =
                     (move.piece_type = "I1"),
                 !.move_history = Append(@, move) ])
    ELSE game

\* Game.pass_turn on a Game held as a value: the Game afterwards.
GameAfterPass(game) ==
    GameNextTurn([ game EXCEPT !.has_passed[game.current_player_index] = TRUE ])

\* game.copy()
copy ==
    /\ copied' = << Game_copy(ThisGame) >>
    /\ call' = [ op |-> "copy", by |-> current_player_index, ret |-> "ok" ]
    /\ UNCHANGED << size, grid, num_players, remaining_pieces, has_passed,
                    last_piece_was_monomino, current_player_index,
                    game_finished, move_history, status, args, result, env, buffer, agent >>

\* play_move called on the copy by player `by`, leaving the copy as game2.
copy_play_move_outcome(by, game2) ==
    /\ copied # << >>
    /\ copied' = << game2 >>
    /\ call' = [ op |-> "copy.play_move", by |-> by,
                 ret |-> IF copied' # copied THEN "ok" ELSE "failed" ]
    /\ UNCHANGED << size, grid, num_players, remaining_pieces, has_passed,
                    last_piece_was_monomino, current_player_index,
                    game_finished, move_history, status, args, result, env, buffer, agent >>

\* play_move(move) called on the copy.
copy_play_move(move) ==
    /\ copied # << >>
    /\ copy_play_move_outcome(move.player_id, GameAfterMove(copied[1], move))

\* pass_turn() called on the copy.
copy_pass_turn ==
    /\ copied # << >>
    /\ copied' = << GameAfterPass(copied[1]) >>
    /\ call' = [ op |-> "copy.pass_turn", by |-> copied[1].current_player_index,
                 ret |-> "ok" ]
    /\ UNCHANGED << size, grid, num_players, remaining_pieces, has_passed,
                    last_piece_was_monomino, current_player_index,
                    game_finished, move_history, status, args, result, env, buffer, agent >>

\* The (player, Game afterwards) pairs play_move on the copy can end with.
CopyOutcomes ==
    IF copied = << >> THEN {}
    ELSE { << move.player_id, GameAfterMove(copied[1], move) >> : move \in Moves }

\* A call play_move(move) on the copy for any move of Moves; calls with the
\* same outcome are one step.
CopyPlayMove == \E o \in CopyOutcomes : copy_play_move_outcome(o[1], o[2])

\* Two-player games, copied at any time.
InitCopy == Init /\ num_players = 2

NextCopy ==
    \/ PlayMoveAccepted
    \/ PlayMoveRejected
    \/ pass_turn
    \/ copy
    \/ CopyPlayMove
    \/ copy_pass_turn

SpecCopy == InitCopy /\ [][NextCopy]_vars

(***************************************************************************)
(* rl/actions.py                                                           *)
(***************************************************************************)
MAX_ORIENTATIONS == 8

\* ActionSpaceConfig.num_piece_types
num_piece_types == 21

\* get_action_space_size
get_action_space_size(board_size) ==
    num_piece_types * MAX_ORIENTATIONS * board_size * board_size

\* list(PieceType).index(piece_type), 0-based.
PieceIndex(piece_type) ==
    (CHOOSE i \in DOMAIN PieceTypeOrder : PieceTypeOrder[i] = piece_type) - 1

\* encode_action with the row and the column in each other's place.
encode_action_transposed(move, board_size) ==
    PieceIndex(move.piece_type) * (MAX_ORIENTATIONS * (board_size * board_size))
    + move.orientation * (board_size * board_size)
    + move.col * board_size + move.row

\* encode_action
encode_action(move, board_size) ==
    PieceIndex(move.piece_type) * (MAX_ORIENTATIONS * (board_size * board_size))
    + move.orientation * (board_size * board_size)
    + move.row * board_size + move.col

\* The end of decode_action, from "Validate piece index" on.  A negative
\* piece_idx indexes the list from its end, and raises IndexError below -21.
DecodedMove(piece_idx, orientation, row, col, current) ==
    IF piece_idx >= Len(PieceTypeOrder)
    THEN [ outcome |-> "None" ]
    ELSE IF piece_idx < 0 - Len(PieceTypeOrder)
    THEN [ outcome |-> "IndexError" ]
    ELSE IF orientation >=
            Len(PIECES[PieceTypeOrder[(piece_idx % Len(PieceTypeOrder)) + 1]])
    THEN [ outcome |-> "None" ]
    ELSE [ outcome |-> "Move",
           move |-> [ player_id |-> current,
                      piece_type |->
                          PieceTypeOrder[(piece_idx % Len(PieceTypeOrder)) + 1],
                      orientation |-> orientation, row |-> row, col |-> col ] ]

\* decode_action: the components are taken apart with Python's floor
\* division and modulo.
decode_action(action, board_size, current) ==
    DecodedMove(
        action \div (MAX_ORIENTATIONS * (board_size * board_size)),
        (action % (MAX_ORIENTATIONS * (board_size * board_size)))
            \div (board_size * board_size),
        ((action % (MAX_ORIENTATIONS * (board_size * board_size)))
            % (board_size * board_size)) \div board_size,
        ((action % (MAX_ORIENTATIONS * (board_size * board_size)))
            % (board_size * board_size)) % board_size,
        current)

\* Variant: the mask of the first player's moves, whoever is to move.
get_action_mask_first_player(g, sz, remaining, history, current) ==
    { a \in { encode_action(move, sz) :
                move \in get_valid_moves(g, sz, remaining, history, 0) } :
        0 <= a /\ a < get_action_space_size(sz) }

\* get_action_mask, as the set of the action ids that are True.
get_action_mask(g, sz, remaining, history, current) ==
    { a \in { encode_action(move, sz) :
                move \in get_valid_moves(g, sz, remaining, history, current) } :
        0 <= a /\ a < get_action_space_size(sz) }

(***************************************************************************)
(* encode_action and decode_action called on their own: a Game on a board  *)
(* of a supported size, either player to move, and one call.               *)
(***************************************************************************)
\* The board sizes the RL modules are written for.
SupportedSizes == { DuoSize, BOARD_SIZE }

\* Every move that lies on the board: an existing orientation of a piece
\* type, anchored so that all its cells are cells of the board.
OnBoardMoves(sz, player_id) ==
    UNION { UNION { { [ player_id |-> player_id, piece_type |-> pt,
                        orientation |-> i - 1, row |-> row, col |-> col ] :
                      row \in 0..(sz - 1 - SetMax({ rc[1] : rc \in PIECES[pt][i].coords })),
                      col \in 0..(sz - 1 - SetMax({ rc[2] : rc \in PIECES[pt][i].coords })) } :
                    i \in DOMAIN PIECES[pt] } :
            pt \in PieceType }

\* A new Game on an empty board of size sz with n players holding all pieces,
\* player `starting` to move.
NewGame(sz, n, starting) ==
    /\ size = sz
    /\ grid = EmptyGrid(sz)
    /\ num_players = n
    /\ remaining_pieces = [ p \in 0..(n - 1) |-> PieceType ]
    /\ has_passed = [ p \in 0..(n - 1) |-> FALSE ]
    /\ last_piece_was_monomino = [ p \in 0..(n - 1) |-> FALSE ]
    /\ current_player_index = starting
    /\ game_finished = FALSE
    /\ move_history = << >>
    /\ status = IN_PROGRESS
    /\ call = [ op |-> "new", by |-> 0, ret |-> "ok" ]
    /\ copied = << >>

InitEncode ==
    /\ \E sz \in SupportedSizes, starting \in 0..1 : NewGame(sz, 2, starting)
    /\ args \in { << move >> : move \in OnBoardMoves(size, current_player_index) }
    /\ result = << >>
    /\ env = << >>
    /\ buffer = << >>
    /\ agent = << >>

\* decode_action(encode_action(move, board_size), game)
encode_then_decode ==
    /\ args # << >>
    /\ result = << >>
    /\ result' = << encode_action(args[1], size),
                    decode_action(encode_action(args[1], size), size,
                                  current_player_index) >>
    /\ UNCHANGED << size, grid, num_players, remaining_pieces, has_passed,
                    last_piece_was_monomino, current_player_index,
                    game_finished, move_history, status, call, copied, args, env,
                    buffer, agent >>

NextEncode == encode_then_decode

SpecEncode == InitEncode /\ [][NextEncode]_vars

(***************************************************************************)
(* decode_action called on its own with any integer around the action      *)
(* space of a new Game: one block of S*S ids below -21*8*S*S up to one     *)
(* block above 21*8*S*S.                                                   *)
(***************************************************************************)
ActionIds(board_size) ==
    (0 - get_action_space_size(board_size) - board_size * board_size)
        .. (get_action_space_size(board_size) + board_size * board_size)

InitDecode ==
    /\ \E sz \in SupportedSizes : NewGame(sz, 2, 0)
    /\ args \in { << action >> : action \in ActionIds(size) }
    /\ result = << >>
    /\ env = << >>
    /\ buffer = << >>
    /\ agent = << >>

\* decode_action(action, game)
decode ==
    /\ args # << >>
    /\ result = << >>
    /\ result' = << decode_action(args[1], size, current_player_index) >>
    /\ UNCHANGED << size, grid, num_players, remaining_pieces, has_passed,
                    last_piece_was_monomino, current_player_index,
                    game_finished, move_history, status, call, copied, args, env,
                    buffer, agent >>

NextDecode == decode

SpecDecode == InitDecode /\ [][NextDecode]_vars

(***************************************************************************)
(* Exact fractions, for the floating-point values of the RL modules.       *)
(***************************************************************************)
\* A fraction num/den, den > 0.  Exploration rates are counted in hundredths
\* and kept as exact fractions.
Frac(num, den) == [ num |-> num, den |-> den ]

FracLeq(a, b) == a.num * b.den <= b.num * a.den

FracEq(a, b) == a.num * b.den = b.num * a.den

\* min(1.0, r)
FracMin1(r) == IF r.den <= r.num THEN Frac(1, 1) ELSE r

\* i + k * r, for integers i and k
FracAffine(i, k, r) == Frac(i * r.den + k * r.num, r.den)

(***************************************************************************)
(* rl/observations.py                                                      *)
(***************************************************************************)
MAX_TURNS == 84
NUM_CHANNELS == 47

\* _has_edge_contact
_has_edge_contact(g, sz, row, col, player_id) ==
    \E d \in EdgeSteps :
        /\ is_valid_position(sz, row + d[1], col + d[2])
        /\ g[<< row + d[1], col + d[2] >>] = player_id + 1

\* _get_valid_corners, as the set of the positions in the returned list.
_get_valid_corners(game, player_id) ==
    IF is_first_move(game.move_history, player_id)
    THEN get_starting_corners(game.size, player_id)
    ELSE { n \in { << rc[1] + d[1], rc[2] + d[2] >> :
                     rc \in get_player_cells(game.grid, player_id),
                     d \in DiagonalSteps } :
             /\ is_valid_position(game.size, n[1], n[2])
             /\ game.grid[n] = 0
             /\ ~ _has_edge_contact(game.grid, game.size, n[1], n[2], player_id) }

\* 1.0 or 0.0
Indicator(b) == IF b THEN Frac(1, 1) ELSE Frac(0, 1)

\* (grid == player_id + 1) at one cell of a game of the history, 0.0 where
\* the channel is left as np.zeros made it.
history_occupancy(history, k, row, col, player_id) ==
    Indicator(/\ Len(history) >= k
              /\ player_id < history[k].num_players
              /\ player_id < 4
              /\ history[k].grid[<< row, col >>] = player_id + 1)

\* Variant: the id of the perspective player is written as it is.
current_player_channel_raw(perspective_player) == Frac(perspective_player, 1)

\* float(perspective_player) / 3.0
current_player_channel(perspective_player) == Frac(perspective_player, 3)

\* create_observation(game, history, perspective_player)[row, col, channel]
observation_value(game, history, perspective_player, row, col, channel) ==
    CASE channel \in 0..3 ->
           Indicator(/\ channel < game.num_players
                     /\ game.grid[<< row, col >>] = channel + 1)
      [] channel \in 4..7 ->
           Indicator(/\ channel - 4 < game.num_players
                     /\ << row, col >> \in _get_valid_corners(game, channel - 4))
      [] channel \in 8..11 ->
           history_occupancy(history, 1, row, col, channel - 8)
      [] channel \in 12..15 ->
           history_occupancy(history, 2, row, col, channel - 12)
      [] channel = 16 ->
           FracMin1(Frac(Len(game.move_history), MAX_TURNS))
      [] channel \in 17..37 ->
           Indicator(PieceTypeOrder[channel - 17 + 1]
                         \in game.remaining_pieces[perspective_player])
      [] channel \in 38..41 ->
           IF channel - 38 < game.num_players
           THEN Frac(Cardinality(game.remaining_pieces[channel - 38]),
                     num_piece_types)
           ELSE Frac(0, 1)
      [] channel \in 42..45 ->
           Indicator(/\ channel - 42 < game.num_players
                     /\ is_first_move(game.move_history, channel - 42))
      [] channel = 46 -> current_player_channel(perspective_player)

\* create_observation
create_observation(game, history, perspective_player) ==
    [ i \in (0..(game.size - 1)) \X (0..(game.size - 1))
              \X (0..(NUM_CHANNELS - 1)) |->
        observation_value(game, history, perspective_player, i[1], i[2], i[3]) ]

\* BlokusEnv._get_obs on an environment that holds a game.
_get_obs == create_observation(ThisGame, env.game_history, current_player_index)

(***************************************************************************)
(* rl/rewards.py.  Potentials and rewards are exact fractions: the         *)
(* weights 0.5, 0.3 and -0.2 are 5, 3 and -2 tenths, GAMMA is 99           *)
(* hundredths.                                                             *)
(***************************************************************************)
\* The common denominator of the three terms of the potential:
\* 10 (weights) * 89 (squares) * 50 (corners) * 12 (big pieces).
PotentialDen == 10 * 89 * 50 * 12

\* _count_valid_corners: the same search as _get_valid_corners, counted.
_count_valid_corners(game, player_id) ==
    Cardinality(_get_valid_corners(game, player_id))

\* The remaining pieces of size >= 4.
big_pieces_remaining(game, player_id) ==
    Cardinality({ pt \in game.remaining_pieces[player_id] :
                    PieceSize(PIECES[pt][1]) >= 4 })

\* min(corners / 50.0, 1.0), in fiftieths
corners_capped(corners) == IF corners < 50 THEN corners ELSE 50

\* potential:
\* 0.5 * (89 - squares_remaining) / 89 + 0.3 * min(corners / 50, 1)
\*   - 0.2 * big_pieces_remaining / 12
potential(game, player_id) ==
    Frac(5 * (89 - squares_remaining(game.remaining_pieces, player_id)) * 50 * 12
           + 3 * corners_capped(_count_valid_corners(game, player_id)) * 89 * 12
           - 2 * big_pieces_remaining(game, player_id) * 89 * 50,
         PotentialDen)

\* sparse_reward: +1 for the only best score, -1 for a lower one, 0 for a
\* tie and while the game is not finished.
sparse_reward(game, player_id) ==
    IF game.status # FINISHED
    THEN 0
    ELSE LET scores == get_scores(game.remaining_pieces,
                                  game.last_piece_was_monomino,
                                  game.num_players)
         IN  IF \A p \in DOMAIN scores : scores[p] <= scores[player_id]
             THEN IF \E p \in DOMAIN scores :
                        p # player_id /\ scores[p] = scores[player_id]
                  THEN 0
                  ELSE 1
             ELSE 0 - 1

\* GAMMA * phi_after - phi_before, over the denominator 100 * PotentialDen.
shaping(phi_before, phi_after) ==
    Frac(99 * phi_after.num - 100 * phi_before.num, 100 * PotentialDen)

\* shaped_reward
shaped_reward(game_before, game_after, player_id) ==
    FracAffine(sparse_reward(game_after, player_id), 1,
               shaping(potential(game_before, player_id),
                       potential(game_after, player_id)))

(***************************************************************************)
(* rl/environment.py: BlokusEnv                                            *)
(***************************************************************************)
max_steps == 200

\* BlokusEnv.__init__: no game yet.  ret is what the last call to the
\* environment ended with.
NewEnv ==
    [ game |-> "None", game_history |-> << >>, step_count |-> 0,
      ret |-> [ op |-> "__init__", raised |-> "none" ] ]

\* BlokusEnv._create_game: Player(id=i) lacks the required name and color,
\* so the call raises TypeError before a Game exists.
_create_game == [ raised |-> "TypeError" ]

\* BlokusEnv.reset: _create_game raises before self.game is assigned.
reset ==
    /\ env # << >>
    /\ env' = [ env EXCEPT !.ret = [ op |-> "reset",
                                     raised |-> _create_game.raised ] ]
    /\ UNCHANGED << size, grid, num_players, remaining_pieces, has_passed,
                    last_piece_was_monomino, current_player_index,
                    game_finished, move_history, status, call, copied, args,
                    result, buffer, agent >>

\* The caller stores the Game it has constructed in the public attribute
\* env.game; reset cannot supply one.
set_game ==
    /\ env # << >>
    /\ env.game = "None"
    /\ env' = [ env EXCEPT !.game = "Game",
                           !.ret = [ op |-> "set_game", raised |-> "none" ] ]
    /\ UNCHANGED << size, grid, num_players, remaining_pieces, has_passed,
                    last_piece_was_monomino, current_player_index,
                    game_finished, move_history, status, call, copied, args,
                    result, buffer, agent >>

\* BlokusEnv.step while self.game is None.
step_uninitialized ==
    /\ env # << >>
    /\ env.game = "None"
    /\ env' = [ env EXCEPT !.ret = [ op |-> "step", raised |-> "RuntimeError" ] ]
    /\ UNCHANGED << size, grid, num_players, remaining_pieces, has_passed,
                    last_piece_was_monomino, current_player_index,
                    game_finished, move_history, status, call, copied, args,
                    result, buffer, agent >>

\* The "Invalid action" return of BlokusEnv.step.
step_invalid ==
    [ op |-> "step", raised |-> "none", valid_action |-> FALSE,
      penalty |-> TRUE, reward |-> Frac(0 - 10, 1), terminated |-> TRUE,
      truncated |-> FALSE ]

\* game_history.insert(0, game_before), cut to two entries.
insert_history(game_history, game_before) ==
    SubSeq(<< game_before >> \o game_history, 1,
           IF Len(game_history) + 1 > 2 THEN 2 ELSE Len(game_history) + 1)

\* BlokusEnv.step once decode_action has returned `decoded` (or raised, which
\* step does not catch) and the copy game_before is taken.
step_decoded(decoded, game_before) ==
    IF decoded.outcome = "IndexError"
    THEN /\ env' = [ env EXCEPT !.ret = [ op |-> "step",
                                          raised |-> "IndexError" ] ]
         /\ UNCHANGED << size, grid, num_players, remaining_pieces, has_passed,
                         last_piece_was_monomino, current_player_index,
                         game_finished, move_history, status, call >>
    ELSE IF decoded.outcome = "None"
    THEN /\ env' = [ env EXCEPT !.ret = step_invalid ]
         /\ UNCHANGED << size, grid, num_players, remaining_pieces, has_passed,
                         last_piece_was_monomino, current_player_index,
                         game_finished, move_history, status, call >>
    ELSE /\ play_move(decoded.move)
         /\ IF call'.ret # "ok"
            THEN env' = [ env EXCEPT !.ret = step_invalid ]
            ELSE env' = [ env EXCEPT
                            !.game_history = insert_history(@, game_before),
                            !.step_count = @ + 1,
                            !.ret = [ op |-> "step", raised |-> "none",
                                      valid_action |-> TRUE, penalty |-> FALSE,
                                      reward |->
                                          shaped_reward(
                                              game_before,
                                              GameAfterMove(ThisGame, decoded.move),
                                              decoded.move.player_id),
                                      terminated |-> (status' = FINISHED),
                                      truncated |->
                                          (env.step_count + 1 >= max_steps) ] ]

\* BlokusEnv.step(action) on an environment that holds a game.
step(action) ==
    /\ env # << >>
    /\ env.game = "Game"
    /\ step_decoded(decode_action(action, size, current_player_index),
                    Game_copy(ThisGame))
    /\ UNCHANGED << copied, args, result, buffer, agent >>

\* The actions an agent sends: those its mask allows, the sentinel 0 it
\* falls back to, and the last id of the action space.
StepActions ==
    get_action_mask(grid, size, remaining_pieces, move_history,
                    current_player_index)
        \cup { 0, get_action_space_size(size) - 1 }

InitEnv ==
    /\ size \in BoardSizes
    /\ grid = EmptyGrid(size)
    /\ num_players \in 2..MaxPlayers
    /\ remaining_pieces = [ p \in 0..(num_players - 1) |-> InitialPieces ]
    /\ has_passed = [ p \in 0..(num_players - 1) |-> FALSE ]
    /\ last_piece_was_monomino = [ p \in 0..(num_players - 1) |-> FALSE ]
    /\ current_player_index = 0
    /\ game_finished = FALSE
    /\ move_history = << >>
    /\ status = IN_PROGRESS
    /\ call = [ op |-> "new", by |-> 0, ret |-> "ok" ]
    /\ copied = << >>
    /\ args = << >>
    /\ result = << >>
    /\ env = NewEnv
    /\ buffer = << >>
    /\ agent = << >>

Step == \E action \in StepActions : step(action)

NextEnv == reset \/ set_game \/ step_uninitialized \/ Step

SpecEnv == InitEnv /\ [][NextEnv]_vars

\* Any integer a caller may pass to step: the actions of StepActions, the id
\* of every Move of the player to move, the first id above the action space,
\* and ids below 0 (the last id and the first id counted from the end, and
\* the one below it).
AnyActions ==
    StepActions
        \cup { encode_action(move, size) :
                 move \in { m \in Moves : m.player_id = current_player_index } }
        \cup { get_action_space_size(size), 0 - 1,
               0 - get_action_space_size(size),
               0 - get_action_space_size(size) - 1 }

StepAny == \E action \in AnyActions : step(action)

NextStep == reset \/ set_game \/ step_uninitialized \/ StepAny

SpecStep == InitEnv /\ [][NextStep]_vars

(***************************************************************************)
(* Episodes long enough for a player to take several steps with the        *)
(* opponent's steps in between: two players on a larger board with more    *)
(* pieces each.                                                            *)
(***************************************************************************)
EpisodeBoardSize == 4
EpisodePieceTypes == 4

InitEpisode ==
    /\ size = EpisodeBoardSize
    /\ grid = EmptyGrid(size)
    /\ num_players = 2
    /\ remaining_pieces =
           [ p \in 0..1 |-> { PieceTypeOrder[i] : i \in 1..EpisodePieceTypes } ]
    /\ has_passed = [ p \in 0..1 |-> FALSE ]
    /\ last_piece_was_monomino = [ p \in 0..1 |-> FALSE ]
    /\ current_player_index = 0
    /\ game_finished = FALSE
    /\ move_history = << >>
    /\ status = IN_PROGRESS
    /\ call = [ op |-> "new", by |-> 0, ret |-> "ok" ]
    /\ copied = << >>
    /\ args = << >>
    /\ result = << >>
    /\ env = NewEnv
    /\ buffer = << >>
    /\ agent = << >>

SpecEpisode == InitEpisode /\ [][NextEnv]_vars

(***************************************************************************)
(* rl/agents: select_action of the DQN agent and of the random agent,      *)
(* called on its own with an action mask and the Q-values the network      *)
(* gives.                                                                  *)
(***************************************************************************)
NumActions == 4

\* The action returned when the mask allows nothing.
SentinelAction == 0

\* The value written over the Q-values of the masked-out actions.
MaskedQ == 0 - 1000000000

\* The Q-values the network may give for an action: its output layer is
\* linear, with no bound.
QValues == { MaskedQ - 1, MaskedQ, 0, 1 }

\* np.where(action_mask)[0]
valid_actions(action_mask) == { a \in DOMAIN action_mask : action_mask[a] }

\* q_values[~mask] = -1e9
masked_q_values(q_values, action_mask) ==
    [ a \in DOMAIN q_values |-> IF action_mask[a] THEN q_values[a] ELSE MaskedQ ]

\* argmax: the first index that holds the largest value.
argmax(q) == SetMin({ a \in DOMAIN q : \A b \in DOMAIN q : q[b] <= q[a] })

\* DQNAgent.select_action, as the set of the actions it may return; explore
\* tells whether random.random() fell below epsilon.
DQNAgent_select_action(q_values, action_mask, explore) ==
    IF valid_actions(action_mask) = {}
    THEN { SentinelAction }
    ELSE IF explore
    THEN valid_actions(action_mask)
    ELSE { argmax(masked_q_values(q_values, action_mask)) }

\* RandomAgent.select_action, as the set of the actions it may return.
RandomAgent_select_action(action_mask) ==
    IF valid_actions(action_mask) = {}
    THEN { SentinelAction }
    ELSE valid_actions(action_mask)

InitAgent ==
    /\ NewGame(DuoSize, 2, 0)
    /\ args \in { << a >> : a \in [ agent : { "DQNAgent", "RandomAgent" },
                                   action_mask : [ 0..(NumActions - 1) -> BOOLEAN ],
                                   q_values : [ 0..(NumActions - 1) -> QValues ],
                                   explore : BOOLEAN ] }
    /\ result = << >>
    /\ env = << >>
    /\ buffer = << >>
    /\ agent = << >>

\* agent.select_action(observation, action_mask)
select_action ==
    /\ args # << >>
    /\ result = << >>
    /\ \E action \in ( IF args[1].agent = "DQNAgent"
                       THEN DQNAgent_select_action(args[1].q_values,
                                                   args[1].action_mask,
                                                   args[1].explore)
                       ELSE RandomAgent_select_action(args[1].action_mask) ) :
           result' = << action >>
    /\ UNCHANGED << size, grid, num_players, remaining_pieces, has_passed,
                    last_piece_was_monomino, current_player_index,
                    game_finished, move_history, status, call, copied, args, env,
                    buffer, agent >>

NextAgent == select_action

SpecAgent == InitAgent /\ [][NextAgent]_vars

(***************************************************************************)
(* rl/agents/dqn_agent.py: ReplayBuffer                                    *)
(***************************************************************************)
MaxCapacity == 3
MaxPushes == 5
NumTransitions == 2
MaxBatch == 4

\* The transitions a caller pushes.
Transitions == 1..NumTransitions

\* ReplayBuffer.__init__: deque(maxlen=capacity).  pushes keeps every
\* transition handed to push, in order, for the properties to refer to.
NewReplayBuffer(capacity) ==
    [ capacity |-> capacity, buffer |-> << >>, pushes |-> << >> ]

\* Variant of deque.append: a full deque keeps what it has and drops the
\* new transition.
deque_append_drop_new(items, maxlen, transition) ==
    IF Len(items) < maxlen THEN Append(items, transition) ELSE items

\* deque.append on a deque with maxlen: a full deque loses its first entry.
deque_append(items, maxlen, transition) ==
    IF maxlen = 0
    THEN items
    ELSE IF Len(items) < maxlen
    THEN Append(items, transition)
    ELSE Append(Tail(items), transition)

\* ReplayBuffer.__len__
ReplayBuffer_len == Len(buffer.buffer)

\* Variant of random.sample: k positions, any of them possibly more than once.
random_sample_with_replacement(population_size, k) ==
    [ 1..k -> 1..population_size ]

\* random.sample(population, k): the sequences of k different positions.
random_sample(population_size, k) ==
    { s \in [ 1..k -> 1..population_size ] :
        \A i \in 1..k, j \in 1..k : s[i] = s[j] => i = j }

\* min(batch_size, len(self.buffer))
sample_size(batch_size, length) ==
    IF batch_size < length THEN batch_size ELSE length

\* ReplayBuffer.push
push(transition) ==
    /\ buffer # << >>
    /\ Len(buffer.pushes) < MaxPushes
    /\ buffer' = [ buffer EXCEPT
                     !.buffer = deque_append(@, buffer.capacity, transition),
                     !.pushes = Append(@, transition) ]
    /\ call' = [ op |-> "push", by |-> transition, ret |-> "ok" ]
    /\ UNCHANGED << size, grid, num_players, remaining_pieces, has_passed,
                    last_piece_was_monomino, current_player_index,
                    game_finished, move_history, status, copied, args, result,
                    env, agent >>

\* ReplayBuffer.sample(batch_size) drawing the positions `slots`.
sample_slots(batch_size, slots) ==
    /\ result' = << [ slots |-> slots,
                      batch |-> [ i \in DOMAIN slots |-> buffer.buffer[slots[i]] ] ] >>
    /\ call' = [ op |-> "sample", by |-> batch_size, ret |-> "ok" ]
    /\ UNCHANGED << size, grid, num_players, remaining_pieces, has_passed,
                    last_piece_was_monomino, current_player_index,
                    game_finished, move_history, status, copied, args, env,
                    buffer, agent >>

\* ReplayBuffer.sample
sample(batch_size) ==
    /\ buffer # << >>
    /\ \E slots \in random_sample(ReplayBuffer_len,
                                  sample_size(batch_size, ReplayBuffer_len)) :
           sample_slots(batch_size, slots)

InitBuffer ==
    /\ NewGame(DuoSize, 2, 0)
    /\ args = << >>
    /\ result = << >>
    /\ env = << >>
    /\ buffer \in { NewReplayBuffer(capacity) : capacity \in 0..MaxCapacity }
    /\ agent = << >>

Push == \E transition \in Transitions : push(transition)

Sample == \E batch_size \in 0..MaxBatch : sample(batch_size)

NextBuffer == Push \/ Sample

SpecBuffer == InitBuffer /\ [][NextBuffer]_vars

(***************************************************************************)
(* rl/agents/dqn_agent.py: DQNAgent.update and DQNAgent.decay_epsilon      *)
(***************************************************************************)
MaxUpdates == 3
MaxEpsilon == 3
MaxDecay == 4
MaxEpisodes == 6

\* DQNAgent.__init__.  online_net and target_net count the optimizer steps
\* and the soft updates applied to the initial parameters.
NewDQNAgent(batch_size, epsilon_start, epsilon_end, epsilon_decay) ==
    [ batch_size |-> batch_size,
      epsilon_start |-> epsilon_start, epsilon_end |-> epsilon_end,
      epsilon_decay |-> epsilon_decay, epsilon |-> Frac(epsilon_start, 1),
      steps_done |-> 0, episodes_done |-> 0,
      online_net |-> 0, target_net |-> 0 ]

\* Variant: a buffer holding exactly one batch also counts as too small.
buffer_too_small_or_equal(length, batch_size) == length <= batch_size

\* len(self.buffer) < self.batch_size
buffer_too_small(length, batch_size) == length < batch_size

\* DQNAgent.update once the batch at the positions `slots` is sampled: the
\* optimizer step, the soft update of the target network, the step counter.
update_on_batch(slots) ==
    /\ agent' = [ agent EXCEPT !.online_net = @ + 1, !.target_net = @ + 1,
                               !.steps_done = @ + 1 ]
    /\ result' = << [ metrics |-> { "loss", "q_mean", "q_max" } ] >>

\* DQNAgent.update
update ==
    /\ agent # << >>
    /\ agent.steps_done < MaxUpdates
    /\ IF buffer_too_small(ReplayBuffer_len, agent.batch_size)
       THEN /\ result' = << [ metrics |-> {} ] >>
            /\ UNCHANGED agent
       ELSE \E slots \in random_sample(ReplayBuffer_len,
                                       sample_size(agent.batch_size,
                                                   ReplayBuffer_len)) :
                update_on_batch(slots)
    /\ call' = [ op |-> "update", by |-> 0, ret |-> "ok" ]
    /\ UNCHANGED << size, grid, num_players, remaining_pieces, has_passed,
                    last_piece_was_monomino, current_player_index,
                    game_finished, move_history, status, copied, args, env,
                    buffer >>

\* DQNAgent.store_transition
store_transition == \E transition \in Transitions : push(transition)

InitUpdate ==
    /\ NewGame(DuoSize, 2, 0)
    /\ args = << >>
    /\ result = << >>
    /\ env = << >>
    /\ buffer \in { NewReplayBuffer(capacity) : capacity \in 1..MaxCapacity }
    /\ agent \in { NewDQNAgent(batch_size, MaxEpsilon, 0, MaxDecay) :
                     batch_size \in 1..MaxBatch }

NextUpdate == store_transition \/ update

SpecUpdate == InitUpdate /\ [][NextUpdate]_vars

\* Variant: the ratio is not capped at 1.
linear_decay_uncapped(epsilon_start, epsilon_end, epsilon_decay, episodes_done) ==
    FracAffine(epsilon_start, epsilon_end - epsilon_start,
               Frac(episodes_done, epsilon_decay))

\* The exploration rate decay_epsilon computes for the given episode count:
\* epsilon_start + (epsilon_end - epsilon_start) * min(1.0, episodes / decay).
linear_decay(epsilon_start, epsilon_end, epsilon_decay, episodes_done) ==
    FracAffine(epsilon_start, epsilon_end - epsilon_start,
               FracMin1(Frac(episodes_done, epsilon_decay)))

\* DQNAgent.decay_epsilon
decay_epsilon ==
    /\ agent # << >>
    /\ agent.episodes_done < MaxEpisodes
    /\ agent' = [ agent EXCEPT
                    !.episodes_done = @ + 1,
                    !.epsilon = linear_decay(agent.epsilon_start,
                                             agent.epsilon_end,
                                             agent.epsilon_decay,
                                             agent.episodes_done + 1) ]
    /\ call' = [ op |-> "decay_epsilon", by |-> 0, ret |-> "ok" ]
    /\ UNCHANGED << size, grid, num_players, remaining_pieces, has_passed,
                    last_piece_was_monomino, current_player_index,
                    game_finished, move_history, status, copied, args, result,
                    env, buffer >>

\* An agent with any start value, any floor not above it and any positive
\* number of decay episodes.
InitEpsilon ==
    /\ NewGame(DuoSize, 2, 0)
    /\ args = << >>
    /\ result = << >>
    /\ env = << >>
    /\ buffer = NewReplayBuffer(MaxCapacity)
    /\ \E epsilon_start \in 0..MaxEpsilon, epsilon_end \in 0..MaxEpsilon,
          epsilon_decay \in 1..MaxDecay :
          /\ epsilon_end <= epsilon_start
          /\ agent = NewDQNAgent(1, epsilon_start, epsilon_end, epsilon_decay)

NextEpsilon == decay_epsilon

SpecEpsilon == InitEpsilon /\ [][NextEpsilon]_vars

(***************************************************************************)
(* pieces.py: _generate_all_orientations, one loop iteration at a time.    *)
(*                                                                         *)
(* args holds the piece type whose base shape is passed in; result holds   *)
(* the locals of the call: the orientations collected so far, the current  *)
(* coordinate set, the loop being run (1: rotations of the base shape,     *)
(* 2: rotations of its mirror image), the iterations done, and whether the *)
(* call has returned.                                                      *)
(***************************************************************************)
InitPieces ==
    /\ \E piece_type \in PieceType :
           /\ args = [ piece_type |-> piece_type ]
           /\ result = [ orientations |-> << >>,
                         current |-> _normalize_coords(PIECE_SHAPES[piece_type]),
                         loop |-> 1, iterations |-> 0, returned |-> FALSE ]
    /\ NewGame(DuoSize, 2, 0)
    /\ env = << >> /\ buffer = << >> /\ agent = << >>

\* for _ in range(4): orientations.add(frozenset(current)); current = _rotate_90(current)
rotation_step ==
    /\ ~result.returned
    /\ result.iterations < 4
    /\ result' = [ result EXCEPT
                     !.orientations = AddUnique(@, result.current),
                     !.current = _rotate_90(result.current),
                     !.iterations = @ + 1 ]
    /\ UNCHANGED << size, grid, num_players, remaining_pieces, has_passed,
                    last_piece_was_monomino, current_player_index,
                    game_finished, move_history, status, call, copied, args,
                    env, buffer, agent >>

\* current = _flip_horizontal(_normalize_coords(base_coords))
flip_step ==
    /\ ~result.returned
    /\ result.loop = 1
    /\ result.iterations = 4
    /\ result' = [ result EXCEPT
                     !.current = _flip_horizontal(
                         _normalize_coords(PIECE_SHAPES[args.piece_type])),
                     !.loop = 2,
                     !.iterations = 0 ]
    /\ UNCHANGED << size, grid, num_players, remaining_pieces, has_passed,
                    last_piece_was_monomino, current_player_index,
                    game_finished, move_history, status, call, copied, args,
                    env, buffer, agent >>

\* return list(orientations)
return_orientations ==
    /\ ~result.returned
    /\ result.loop = 2
    /\ result.iterations = 4
    /\ result' = [ result EXCEPT !.returned = TRUE ]
    /\ UNCHANGED << size, grid, num_players, remaining_pieces, has_passed,
                    last_piece_was_monomino, current_player_index,
                    game_finished, move_history, status, call, copied, args,
                    env, buffer, agent >>

NextPieces == rotation_step \/ flip_step \/ return_orientations

SpecPieces == InitPieces /\ [][NextPieces]_vars

(***************************************************************************)
(* Construction: player_factory.py, game_manager_factory.py,               *)
(* GameManager.__init__ and Game.__init__.                                 *)
(*                                                                         *)
(* A list of players is the sequence of their ids.  A constructor yields   *)
(* [raised |-> "ValueError"] or the manager it built:                      *)
(* [raised |-> "None", player_ids, current_player_index].                  *)
(***************************************************************************)
\* Constructors are called with 0 .. MaxConfigured players or configurations
\* and with a starting player in -1 .. MaxConfigured.
MaxConfigured == 5

ValueError == [ raised |-> "ValueError" ]

\* Players with ids first, first + 1, ..., count of them.
PlayerIds(count, first) == [ i \in 1..count |-> first + i - 1 ]

\* PlayerFactory.create_standard_players
create_standard_players(n) ==
    IF n \notin { 2, 4 } THEN ValueError
    ELSE [ raised |-> "None", players |-> PlayerIds(n, 0) ]

\* GameManager.__init__
GameManager_init(players, starting_player_index) ==
    IF /\ Len(players) > 0
       /\ ~(0 <= starting_player_index /\ starting_player_index < Len(players))
    THEN ValueError
    ELSE [ raised |-> "None", player_ids |-> players,
           current_player_index |-> starting_player_index ]

\* The "for i, player in enumerate(players)" search of create_from_config:
\* the index of the first player with the id, 0 when there is none.
starting_index(players, starting_player_id) ==
    IF \E i \in DOMAIN players : players[i] = starting_player_id
    THEN SetMin({ i \in DOMAIN players : players[i] = starting_player_id }) - 1
    ELSE 0

\* GameManagerFactory.create_from_config; every configuration is of a known
\* player type and carries its id.
create_from_config(player_configs, starting_player_id) ==
    GameManager_init(player_configs,
                     starting_index(player_configs, starting_player_id))

\* GameManagerFactory.create_standard_game
create_standard_game(n, starting_player_id) ==
    IF create_standard_players(n).raised # "None" THEN ValueError
    ELSE IF ~(0 <= starting_player_id /\ starting_player_id < n) THEN ValueError
    ELSE GameManager_init(create_standard_players(n).players, starting_player_id)

\* Game.__init__ without a game_manager argument.
Game_init(n, players, starting_player_idx) ==
    IF Len(players) > 0 THEN GameManager_init(players, starting_player_idx)
    ELSE IF create_standard_players(n).raised # "None" THEN ValueError
    ELSE GameManager_init(create_standard_players(n).players, starting_player_idx)

\* The state once a constructor has returned or raised: a manager (sz = 0) or
\* a game on an empty board of size sz, whose players hold every piece.
Constructed(op, outcome, sz) ==
    /\ call' = op
    /\ result' = outcome
    /\ IF outcome.raised = "None"
       THEN /\ size' = sz
            /\ grid' = EmptyGrid(sz)
            /\ num_players' = Len(outcome.player_ids)
            /\ remaining_pieces' =
                   [ p \in 0..(Len(outcome.player_ids) - 1) |-> PieceType ]
            /\ has_passed' = [ p \in 0..(Len(outcome.player_ids) - 1) |-> FALSE ]
            /\ last_piece_was_monomino' =
                   [ p \in 0..(Len(outcome.player_ids) - 1) |-> FALSE ]
            /\ current_player_index' = outcome.current_player_index
            /\ game_finished' = FALSE
            /\ move_history' = << >>
            /\ status' = IN_PROGRESS
       ELSE UNCHANGED << size, grid, num_players, remaining_pieces, has_passed,
                         last_piece_was_monomino, current_player_index,
                         game_finished, move_history, status >>
    /\ UNCHANGED << copied, args, env, buffer, agent >>

\* Nothing has been constructed yet.
InitConstruct ==
    /\ size = 0 /\ grid = EmptyGrid(0) /\ num_players = 0
    /\ remaining_pieces = << >> /\ has_passed = << >>
    /\ last_piece_was_monomino = << >>
    /\ current_player_index = 0 /\ game_finished = FALSE
    /\ move_history = << >> /\ status = IN_PROGRESS
    /\ call = [ op |-> "none" ]
    /\ copied = << >> /\ args = << >> /\ result = << >>
    /\ env = << >> /\ buffer = << >> /\ agent = << >>

CreateStandardGame ==
    /\ call.op = "none"
    /\ \E n \in 0..MaxConfigured, starting_player_id \in (0 - 1)..MaxConfigured :
           Constructed([ op |-> "create_standard_game", count |-> n,
                         player_ids |-> PlayerIds(n, 0),
                         starting_player |-> starting_player_id ],
                       create_standard_game(n, starting_player_id), 0)

\* The configurations carry the ids first .. first + n - 1.
CreateFromConfig ==
    /\ call.op = "none"
    /\ \E n \in 0..MaxConfigured, first \in 0..1,
          starting_player_id \in (0 - 1)..MaxConfigured :
           Constructed([ op |-> "create_from_config", count |-> n,
                         player_ids |-> PlayerIds(n, first),
                         starting_player |-> starting_player_id ],
                       create_from_config(PlayerIds(n, first), starting_player_id),
                       0)

\* Game(num_players=n, starting_player_idx=...)
NewGameWithCount ==
    /\ call.op = "none"
    /\ \E n \in 0..MaxConfigured, starting_player_idx \in (0 - 1)..MaxConfigured :
           Constructed([ op |-> "Game", count |-> n,
                         player_ids |-> PlayerIds(n, 0),
                         starting_player |-> starting_player_idx ],
                       Game_init(n, << >>, starting_player_idx), BOARD_SIZE)

\* Game(players=[...], starting_player_idx=...) with a non-empty list.
NewGameWithPlayers ==
    /\ call.op = "none"
    /\ \E n \in 1..MaxConfigured, starting_player_idx \in (0 - 1)..MaxConfigured :
           Constructed([ op |-> "Game", count |-> n,
                         player_ids |-> PlayerIds(n, 0),
                         starting_player |-> starting_player_idx ],
                       Game_init(4, PlayerIds(n, 0), starting_player_idx),
                       BOARD_SIZE)

NextConstruct ==
    \/ CreateStandardGame
    \/ CreateFromConfig
    \/ NewGameWithCount
    \/ NewGameWithPlayers

SpecConstruct == InitConstruct /\ [][NextConstruct]_vars

(***************************************************************************)
(* game.py: is_valid_move and play_move called with a player_id that is    *)
(* not the index of a player.                                              *)
(***************************************************************************)
\* self.players[player_id]: a Python list counts a negative index from the end
\* and raises IndexError outside -n .. n - 1.
players_getitem(n, player_id) ==
    IF 0 <= player_id /\ player_id < n
    THEN [ raised |-> "None", index |-> player_id ]
    ELSE IF 0 - n <= player_id /\ player_id < 0
    THEN [ raised |-> "None", index |-> player_id + n ]
    ELSE [ raised |-> "IndexError" ]

\* Game.is_valid_move for any player_id, as the statement it leaves by:
\* "IndexError" or one of the sites of is_valid_move_site.
Game_is_valid_move(g, sz, n, remaining, history, current, move) ==
    IF players_getitem(n, move.player_id).raised # "None"
    THEN "IndexError"
    ELSE IF move.piece_type
                \notin remaining[players_getitem(n, move.player_id).index]
    THEN "piece not available"
    ELSE IF move.player_id # current
    THEN "not current player"
    ELSE is_valid_move_site(g, sz, remaining, history, current, move)

\* The player ids next to the players' own.
ForeignIds == ((0 - num_players - 1)..(num_players + 1)) \ Players

ForeignMoves ==
    UNION { [ player_id : ForeignIds, piece_type : { pt },
              orientation : 0..(num_orientations(pt) - 1),
              row : Anchors, col : Anchors ] : pt \in InitialPieces }

\* The sites by which the calls with a move of ForeignMoves leave
\* is_valid_move in the current state, with the player_id.
ForeignOutcomes ==
    { << move.player_id,
         Game_is_valid_move(grid, size, num_players, remaining_pieces,
                            move_history, current_player_index, move) >> :
        move \in ForeignMoves }

\* game.is_valid_move(move): it changes nothing.
IsValidMoveForeign ==
    /\ \E r \in ForeignOutcomes :
           call' = [ op |-> "is_valid_move", by |-> r[1], ret |-> r[2] ]
    /\ UNCHANGED << size, grid, num_players, remaining_pieces, has_passed,
                    last_piece_was_monomino, current_player_index,
                    game_finished, move_history, status >>
    /\ UNCHANGED others

\* game.play_move(move): the exception of is_valid_move propagates, a False
\* makes it return False.  Calls that leave the same record are one step.
PlayMoveForeign ==
    /\ \E r \in ForeignOutcomes :
           IF r[2] = "valid"
           THEN \E move \in ForeignMoves :
                    /\ move.player_id = r[1]
                    /\ Game_is_valid_move(grid, size, num_players,
                                          remaining_pieces, move_history,
                                          current_player_index, move) = "valid"
                    /\ play_move(move)
           ELSE play_move_rejected(r[1], r[2])
    /\ UNCHANGED others

NextAnyPlayer ==
    \/ PlayMoveAccepted
    \/ PlayMoveRejected
    \/ pass_turn
    \/ force_pass
    \/ IsValidMoveForeign
    \/ PlayMoveForeign

SpecAnyPlayer == Init /\ [][NextAnyPlayer]_vars

(***************************************************************************)
(* A game played to the end by the loop of test_4p_full_game_simulation:   *)
(* while the game is IN_PROGRESS the player to move plays one of their     *)
(* legal moves when get_valid_moves returns any, and passes otherwise.     *)
(***************************************************************************)
PolicyMove ==
    /\ status = IN_PROGRESS
    /\ \E move \in get_valid_moves(grid, size, remaining_pieces, move_history,
                                   current_player_index) :
           play_move(move)
    /\ UNCHANGED others

PolicyPassTurn ==
    /\ status = IN_PROGRESS
    /\ get_valid_moves(grid, size, remaining_pieces, move_history,
                       current_player_index) = {}
    /\ pass_turn

PolicyForcePass ==
    /\ status = IN_PROGRESS
    /\ get_valid_moves(grid, size, remaining_pieces, move_history,
                       current_player_index) = {}
    /\ force_pass

NextPolicy == PolicyMove \/ PolicyPassTurn \/ PolicyForcePass

\* The loop keeps running while its condition holds.
SpecPolicy == Init /\ [][NextPolicy]_vars /\ WF_vars(NextPolicy)

(***************************************************************************)
(* board.py: the per-player caches of Board.  result holds the board's     *)
(* three caches (functions from the player ids that have an entry) and the *)
(* set the last query returned.                                            *)
(***************************************************************************)
\* cache[key] = value
CachePut(cache, key, value) ==
    [ k \in DOMAIN cache \cup { key } |-> IF k = key THEN value ELSE cache[k] ]

\* Variant: the caches survive a placement.
clear_cache_kept(board) == board

\* Board.clear_cache
clear_cache(board) ==
    [ board EXCEPT !._cells_cache = << >>, !._corners_cache = << >>,
                   !._edges_cache = << >> ]

\* Board.get_player_cells: [board |-> the caches afterwards, returned |-> the set].
Board_get_player_cells(board, g, player_id) ==
    IF player_id \in DOMAIN board._cells_cache
    THEN [ board |-> board, returned |-> board._cells_cache[player_id] ]
    ELSE [ board |-> [ board EXCEPT !._cells_cache =
                           CachePut(@, player_id, get_player_cells(g, player_id)) ],
           returned |-> get_player_cells(g, player_id) ]

\* The body of Board.get_player_corners after player_cells is known.
corners_of(g, sz, player_id, player_cells) ==
    IF player_cells = {}
    THEN get_starting_corners(sz, player_id)
    ELSE { n \in { << rc[1] + d[1], rc[2] + d[2] >> :
                     rc \in player_cells, d \in DiagonalSteps } :
             /\ is_valid_position(sz, n[1], n[2])
             /\ is_empty(g, sz, n[1], n[2])
             /\ ~ \E e \in EdgeSteps :
                    << n[1] + e[1], n[2] + e[2] >> \in player_cells }

\* Board.get_player_corners
Board_get_player_corners(board, g, sz, player_id) ==
    IF player_id \in DOMAIN board._corners_cache
    THEN [ board |-> board, returned |-> board._corners_cache[player_id] ]
    ELSE [ board |->
               [ Board_get_player_cells(board, g, player_id).board EXCEPT
                   !._corners_cache =
                       CachePut(@, player_id,
                                corners_of(g, sz, player_id,
                                           Board_get_player_cells(
                                               board, g, player_id).returned)) ],
           returned |->
               corners_of(g, sz, player_id,
                          Board_get_player_cells(board, g, player_id).returned) ]

\* The body of Board.get_player_edges after player_cells is known.
edges_of(sz, player_cells) ==
    { n \in { << rc[1] + d[1], rc[2] + d[2] >> :
                rc \in player_cells, d \in EdgeSteps } :
        is_valid_position(sz, n[1], n[2]) /\ n \notin player_cells }

\* Board.get_player_edges
Board_get_player_edges(board, g, sz, player_id) ==
    IF player_id \in DOMAIN board._edges_cache
    THEN [ board |-> board, returned |-> board._edges_cache[player_id] ]
    ELSE [ board |->
               [ Board_get_player_cells(board, g, player_id).board EXCEPT
                   !._edges_cache =
                       CachePut(@, player_id,
                                edges_of(sz, Board_get_player_cells(
                                                 board, g, player_id).returned)) ],
           returned |->
               edges_of(sz, Board_get_player_cells(board, g, player_id).returned) ]

\* Board.__post_init__ ends with clear_cache().
InitCache ==
    /\ size = 2
    /\ grid = EmptyGrid(size)
    /\ num_players = 2
    /\ remaining_pieces = [ p \in 0..(num_players - 1) |-> InitialPieces ]
    /\ has_passed = [ p \in 0..(num_players - 1) |-> FALSE ]
    /\ last_piece_was_monomino = [ p \in 0..(num_players - 1) |-> FALSE ]
    /\ current_player_index = 0
    /\ game_finished = FALSE
    /\ move_history = << >>
    /\ status = IN_PROGRESS
    /\ call = [ op |-> "new", by |-> 0, ret |-> "ok" ]
    /\ copied = << >>
    /\ args = << >>
    /\ result = [ _cells_cache |-> << >>, _corners_cache |-> << >>,
                  _edges_cache |-> << >>, returned |-> {} ]
    /\ env = << >>
    /\ buffer = << >>
    /\ agent = << >>

\* What a call on the board leaves of the state: the caches, the returned set
\* and the record of the call.
BoardCall(op, player_id, ret, answer) ==
    /\ call' = [ op |-> op, by |-> player_id, ret |-> ret ]
    /\ result' = [ _cells_cache |-> answer.board._cells_cache,
                   _corners_cache |-> answer.board._corners_cache,
                   _edges_cache |-> answer.board._edges_cache,
                   returned |-> answer.returned ]
    /\ UNCHANGED << size, num_players, remaining_pieces, has_passed,
                    last_piece_was_monomino, current_player_index,
                    game_finished, move_history, status, copied, args, env,
                    buffer, agent >>

\* board.place_piece(piece, row, col, player_id): a successful call clears
\* the caches, a failed one returns before it.
CachedPlacePiece ==
    \E pt \in InitialPieces, row \in BoardAnchors, col \in BoardAnchors,
       player_id \in Players :
        \E i \in DOMAIN PIECES[pt] :
            /\ grid' = place_piece(grid, size, PIECES[pt][i], row, col,
                                   player_id).grid
            /\ IF place_piece(grid, size, PIECES[pt][i], row, col, player_id).ok
               THEN BoardCall("place_piece", player_id, "ok",
                              [ board |-> clear_cache(result), returned |-> {} ])
               ELSE BoardCall("place_piece", player_id, "failed",
                              [ board |-> result, returned |-> {} ])

CacheOutcome(cache, player_id) ==
    IF player_id \in DOMAIN cache THEN "cached" ELSE "computed"

GetPlayerCells ==
    \E player_id \in Players :
        /\ BoardCall("get_player_cells", player_id,
                     CacheOutcome(result._cells_cache, player_id),
                     Board_get_player_cells(result, grid, player_id))
        /\ UNCHANGED grid

GetPlayerCorners ==
    \E player_id \in Players :
        /\ BoardCall("get_player_corners", player_id,
                     CacheOutcome(result._corners_cache, player_id),
                     Board_get_player_corners(result, grid, size, player_id))
        /\ UNCHANGED grid

GetPlayerEdges ==
    \E player_id \in Players :
        /\ BoardCall("get_player_edges", player_id,
                     CacheOutcome(result._edges_cache, player_id),
                     Board_get_player_edges(result, grid, size, player_id))
        /\ UNCHANGED grid

NextCache ==
    \/ CachedPlacePiece
    \/ GetPlayerCells
    \/ GetPlayerCorners
    \/ GetPlayerEdges

SpecCache == InitCache /\ [][NextCache]_vars

(***************************************************************************)
(* The winner as GameManager and BlokusEnv report it                       *)
(***************************************************************************)
\* Player.score: 0 at construction and written only by Player.calculate_score,
\* which no operation of Game, GameManager or BlokusEnv calls; Game.copy hands
\* the stored value on.
Player_score(player_id) == 0

\* GameManager.get_winner: the id of the returned Player, NoWinner for None.
GameManager_get_winner(passed, n, finished) ==
    IF ~ is_game_over(passed, n, finished)
    THEN NoWinner
    ELSE LET max_score == SetMax({ Player_score(p) : p \in 0..(n - 1) })
             winners == { p \in 0..(n - 1) : Player_score(p) = max_score }
         IN  IF Cardinality(winners) = 1
             THEN CHOOSE p \in winners : TRUE
             ELSE NoWinner

\* BlokusEnv._get_info: the "winner" entry, NoWinner for None.
_get_info_winner(st, scores) ==
    IF st = FINISHED THEN argmax(scores) ELSE NoWinner

(***************************************************************************)
(* Moves whose orientation id is outside the piece type's orientations     *)
(***************************************************************************)
\* The ids next to the valid ones: the one below 0, the first beyond the
\* piece type's orientations, and the first beyond the 8 slots of the codec.
OutOfRangeOrientations(pt) == { 0 - 1, num_orientations(pt), MAX_ORIENTATIONS }

WrappedMoves ==
    UNION { [ player_id : Players, piece_type : { pt },
              orientation : OutOfRangeOrientations(pt),
              row : Anchors, col : Anchors ] : pt \in InitialPieces }

\* The (player_id, return site) pairs by which the calls with a move of
\* WrappedMoves leave is_valid_move in the current state.
WrappedOutcomes ==
    { << move.player_id,
         is_valid_move_site(grid, size, remaining_pieces, move_history,
                            current_player_index, move) >> : move \in WrappedMoves }

\* game.is_valid_move(move) with a move of WrappedMoves: it changes nothing.
IsValidMoveAnyOrientation ==
    /\ \E r \in WrappedOutcomes :
           call' = [ op |-> "is_valid_move", by |-> r[1], ret |-> r[2] ]
    /\ UNCHANGED << size, grid, num_players, remaining_pieces, has_passed,
                    last_piece_was_monomino, current_player_index,
                    game_finished, move_history, status >>
    /\ UNCHANGED others

\* game.play_move(move) with a move of WrappedMoves.  Rejected calls that
\* leave the same record are one step.
PlayMoveAnyOrientation ==
    /\ \E r \in WrappedOutcomes :
           IF r[2] = "valid"
           THEN \E move \in WrappedMoves :
                    /\ move.player_id = r[1]
                    /\ is_valid_move(grid, size, remaining_pieces, move_history,
                                     current_player_index, move)
                    /\ play_move(move)
           ELSE play_move_rejected(r[1], r[2])
    /\ UNCHANGED others

NextAnyOrientation ==
    \/ PlayMoveAccepted
    \/ PlayMoveRejected
    \/ pass_turn
    \/ force_pass
    \/ IsValidMoveAnyOrientation
    \/ PlayMoveAnyOrientation

\* Two-player games on the small boards.
InitAnyOrientation == Init /\ num_players = 2

SpecAnyOrientation == InitAnyOrientation /\ [][NextAnyOrientation]_vars

(***************************************************************************)
(* scripts/train.py: the while loop of train_episode.  The loop is entered *)
(* once env.reset() has returned; BlokusEnv.reset as written raises before *)
(* that, so the loop is modelled for an environment that holds its game,   *)
(* as the episodes of SpecEpisode are.  args holds the loop's local done,  *)
(* buffer is the replay buffer of the learning agent.  agent.update() is   *)
(* left out: it changes the networks only.                                 *)
(***************************************************************************)
\* The player the learning agent plays as.
AgentPlayer == 0

InitTrain ==
    /\ size = EpisodeBoardSize
    /\ grid = EmptyGrid(size)
    /\ num_players = 2
    /\ remaining_pieces =
           [ p \in 0..1 |-> { PieceTypeOrder[i] : i \in 1..EpisodePieceTypes } ]
    /\ has_passed = [ p \in 0..1 |-> FALSE ]
    /\ last_piece_was_monomino = [ p \in 0..1 |-> FALSE ]
    /\ current_player_index = 0
    /\ game_finished = FALSE
    /\ move_history = << >>
    /\ status = IN_PROGRESS
    /\ call = [ op |-> "new", by |-> 0, ret |-> "ok" ]
    /\ copied = << >>
    /\ args = << [ done |-> FALSE ] >>
    /\ result = << >>
    /\ env = [ NewEnv EXCEPT !.game = "Game" ]
    /\ buffer = NewReplayBuffer(MaxCapacity)
    /\ agent = << >>

\* The Transition the agent's branch stores once env.step has returned `ret`
\* and left the game `game_after`: next_state is the observation of that game,
\* kept here as the game itself, and next_action_mask is env.action_masks()
\* on it, or all zeros when the episode is done.
stored_transition(action, prev_game, prev_mask, ret, game_after) ==
    LET done == ret.terminated \/ ret.truncated
    IN  [ state |-> prev_game, action |-> action, reward |-> ret.reward,
          next_state |-> game_after, done |-> done,
          action_mask |-> prev_mask,
          next_action_mask |->
              IF done THEN {}
              ELSE get_action_mask(game_after.grid, game_after.size,
                                   game_after.remaining_pieces,
                                   game_after.move_history,
                                   game_after.current_player_index) ]

\* One pass through the loop body: the player to move selects an action
\* under the current mask and the environment steps; on the agent's turn the
\* transition is stored.
train_episode_step ==
    /\ ~ args[1].done
    /\ \E action \in StepActions :
           /\ step_decoded(decode_action(action, size, current_player_index),
                           Game_copy(ThisGame))
           /\ args' = << [ done |-> env'.ret.terminated \/ env'.ret.truncated ] >>
           /\ IF current_player_index = AgentPlayer
              THEN LET transition ==
                           stored_transition(
                               action, ThisGame,
                               get_action_mask(grid, size, remaining_pieces,
                                               move_history, current_player_index),
                               env'.ret,
                               [ size |-> size', grid |-> grid',
                                 num_players |-> num_players',
                                 remaining_pieces |-> remaining_pieces',
                                 has_passed |-> has_passed',
                                 last_piece_was_monomino |-> last_piece_was_monomino',
                                 current_player_index |-> current_player_index',
                                 game_finished |-> game_finished',
                                 move_history |-> move_history',
                                 status |-> status' ])
                   IN  buffer' = [ buffer EXCEPT
                                     !.buffer = deque_append(@, buffer.capacity,
                                                             transition),
                                     !.pushes = Append(@, transition) ]
              ELSE UNCHANGED buffer
    /\ UNCHANGED << copied, result, agent >>

NextTrain == train_episode_step

SpecTrain == InitTrain /\ [][NextTrain]_vars

(***************************************************************************)
(* Vocabulary of the properties.                                           *)
(***************************************************************************)
\* The cells a move of the history covers.
CellsOfMove(move) == translate(MovePiece(move), move.row, move.col)

EdgeAdjacent(a, b) ==
    \/ a[1] = b[1] /\ (a[2] = b[2] + 1 \/ b[2] = a[2] + 1)
    \/ a[2] = b[2] /\ (a[1] = b[1] + 1 \/ b[1] = a[1] + 1)

DiagonalAdjacent(a, b) ==
    /\ (a[1] = b[1] + 1 \/ b[1] = a[1] + 1)
    /\ (a[2] = b[2] + 1 \/ b[2] = a[2] + 1)

\* The last call was play_move, pass_turn or force_pass and went through.
TurnTaken ==
    call.op \in { "play_move", "pass_turn", "force_pass" } /\ call.ret = "ok"

\* The legal moves of the player to move.
CurrentValidMoves ==
    get_valid_moves(grid, size, remaining_pieces, move_history, current_player_index)

\* The first player after i, in seating order and cyclically, whom `passed`
\* does not mark; i itself comes last.
FirstActiveAfter(i, passed) ==
    LET k == CHOOSE d \in 1..num_players :
                 /\ ~ passed[(i + d) % num_players]
                 /\ \A e \in 1..(d - 1) : passed[(i + e) % num_players]
    IN  (i + k) % num_players

Scores == get_scores(remaining_pieces, last_piece_was_monomino, num_players)

(***************************************************************************)
(* C1.  After any play_move, pass_turn or force_pass that leaves the game  *)
(* IN_PROGRESS, the player who is now current has at least one legal move. *)
(* Game._next_turn probes the legal moves of the player who has just       *)
(* moved, never those of the player who becomes current, so this fails.    *)
(***************************************************************************)
C1_CurrentPlayerHasLegalMove ==
    (TurnTaken /\ status = IN_PROGRESS) => CurrentValidMoves # {}

(***************************************************************************)
(* C2.  Once the game is FINISHED, every play_move call returns failure    *)
(* and leaves the board, every player's remaining pieces, the move history *)
(* and the scores unchanged.  Game.is_valid_move looks at neither the      *)
(* status nor the passed flag, so this fails.                              *)
(***************************************************************************)
C2_NoMoveAfterFinished ==
    [][ status = FINISHED =>
          /\ grid' = grid
          /\ remaining_pieces' = remaining_pieces
          /\ move_history' = move_history
          /\ Scores' = Scores
          /\ (call'.op = "play_move" /\ call' # call => call'.ret # "ok") ]_vars

(***************************************************************************)
(* C3.  A successful play_move or a pass by current player i that leaves   *)
(* the game IN_PROGRESS hands the turn to the first player after i in      *)
(* cyclic seating order who has not passed (i again if all others have     *)
(* passed); and a player who has passed is never the current player while  *)
(* the game is IN_PROGRESS.                                                *)
(***************************************************************************)
C3_TurnGoesToNextActive ==
    /\ [](status = IN_PROGRESS => ~ has_passed[current_player_index])
    /\ [][ ( /\ status = IN_PROGRESS
             /\ status' = IN_PROGRESS
             /\ call'.op \in { "play_move", "pass_turn", "force_pass" }
             /\ call'.ret = "ok" )
           => current_player_index' =
                  FirstActiveAfter(current_player_index, has_passed') ]_vars

\* A turn was taken and the turn skipped at least one passed player.
C3_Witness ==
    /\ TurnTaken
    /\ status = IN_PROGRESS
    /\ current_player_index # (call.by + 1) % num_players

(***************************************************************************)
(* C4.  Each piece a player placed after their first touched, when it was  *)
(* placed, at least one of that player's earlier cells diagonally and none *)
(* of them by an edge; hence two cells of one player that belong to        *)
(* different pieces are never edge-adjacent.  Every cell of a placed piece *)
(* is that player's on the grid.                                           *)
(***************************************************************************)
\* The cells player_id owned before the k-th move of the history.
OwnedBefore(k, player_id) ==
    UNION { CellsOfMove(move_history[j]) :
              j \in { i \in 1..(k - 1) : move_history[i].player_id = player_id } }

C4_CornerContactOnly ==
    \A k \in DOMAIN move_history :
        LET move == move_history[k]
            cells == CellsOfMove(move)
            owned == OwnedBefore(k, move.player_id)
        IN  /\ \A rc \in cells : rc \in DOMAIN grid /\ grid[rc] = move.player_id + 1
            /\ owned # {} =>
                 /\ \E a \in cells, b \in owned : DiagonalAdjacent(a, b)
                 /\ \A a \in cells, b \in owned : ~ EdgeAdjacent(a, b)

\* Some player has placed a second piece.
C4_Witness ==
    \E k \in DOMAIN move_history : OwnedBefore(k, move_history[k].player_id) # {}

(***************************************************************************)
(* C5.  A player who owns at least one cell owns their starting corner for *)
(* the board size in use (Duo 14 x 14: (4,4) for player 0, (9,9) for       *)
(* player 1; any other size: the four board corners in player order), and  *)
(* a move of a player who owns no cell that does not cover that corner is  *)
(* rejected.                                                               *)
(***************************************************************************)
ExpectedCorner(player_id) ==
    IF size = 14
    THEN IF player_id = 0 THEN << 4, 4 >> ELSE << 9, 9 >>
    ELSE CASE player_id = 0 -> << 0, 0 >>
           [] player_id = 1 -> << 0, size - 1 >>
           [] player_id = 2 -> << size - 1, size - 1 >>
           [] player_id = 3 -> << size - 1, 0 >>

C5_StartingCornerOwned ==
    /\ \A p \in Players :
          get_player_cells(grid, p) # {} => grid[ExpectedCorner(p)] = p + 1
    /\ \A p \in Players :
          get_player_cells(grid, p) = {} =>
            \A move \in Moves :
              ( /\ move.player_id = p
                /\ ExpectedCorner(p) \notin CellsOfMove(move) )
              => ~ is_valid_move(grid, size, remaining_pieces, move_history,
                                 current_player_index, move)

\* Both players of a Duo game own cells, the last call being a first move that
\* was turned down.
C5_Witness ==
    /\ size = 14
    /\ \A p \in Players : get_player_cells(grid, p) # {}
    /\ call.op = "play_move" /\ call.ret = "placement rejected"

(***************************************************************************)
(* C6.  A board cell that has become occupied keeps its owner for ever: no *)
(* play_move, pass_turn or force_pass changes or clears it.                *)
(***************************************************************************)
C6_OccupiedCellsKeepOwner ==
    [][ \A rc \in DOMAIN grid : grid[rc] # 0 => grid'[rc] = grid[rc] ]_vars

\* Pieces of two players are on the board and the player to move has just had a
\* placement on an occupied cell turned down.
C6_Witness ==
    /\ \E p, q \in Players :
          p # q /\ get_player_cells(grid, p) # {} /\ get_player_cells(grid, q) # {}
    /\ call.op = "play_move" /\ call.ret = "placement rejected"
    /\ call.by = current_player_index
    /\ \E move \in Moves :
          /\ move.player_id = current_player_index
          /\ move.piece_type \in remaining_pieces[move.player_id]
          /\ \E rc \in CellsOfMove(move) : rc \in DOMAIN grid /\ grid[rc] # 0

(***************************************************************************)
(* C7.  place_piece is all-or-nothing: when any translated cell of the     *)
(* piece is out of bounds or occupied it returns failure and the grid is   *)
(* unchanged; otherwise it returns success and the grid differs exactly by *)
(* every cell of the piece now being the player's.                         *)
(***************************************************************************)
C7_PlacePieceAllOrNothing ==
    [][ \A pt \in InitialPieces, row \in BoardAnchors, col \in BoardAnchors,
           player_id \in Players :
          \A i \in DOMAIN PIECES[pt] :
            (player_id = call'.by /\ board_place_piece(PIECES[pt][i], row, col, player_id)) =>
              LET cells == translate(PIECES[pt][i], row, col)
              IN  IF \E rc \in cells : rc \notin DOMAIN grid \/ grid[rc] # 0
                  THEN call'.ret = "failed" /\ grid' = grid
                  ELSE /\ call'.ret = "ok"
                       /\ \A rc \in DOMAIN grid :
                            grid'[rc] = IF rc \in cells THEN player_id + 1
                                        ELSE grid[rc] ]_vars

\* A placement has failed on a board that holds pieces and still has room.
C7_Witness ==
    /\ call.op = "place_piece" /\ call.ret = "failed"
    /\ \E rc \in DOMAIN grid : grid[rc] # 0
    /\ \E rc \in DOMAIN grid : grid[rc] = 0

(***************************************************************************)
(* C8.  play_move with a move that is out of turn, uses a piece the player *)
(* no longer has, or is geometrically illegal returns failure and leaves   *)
(* board, remaining pieces, passed flags, monomino flags, move history,    *)
(* current player and status as they were.                                 *)
(***************************************************************************)
\* The placement rules of Blokus, stated on the grid alone.
GeometricallyLegal(move) ==
    LET cells == CellsOfMove(move)
        owned == { rc \in DOMAIN grid : grid[rc] = move.player_id + 1 }
    IN  /\ \A rc \in cells : rc \in DOMAIN grid /\ grid[rc] = 0
        /\ IF owned = {}
           THEN ExpectedCorner(move.player_id) \in cells
           ELSE /\ \A a \in cells, b \in owned : ~ EdgeAdjacent(a, b)
                /\ \E a \in cells, b \in owned : DiagonalAdjacent(a, b)

BadMove(move) ==
    \/ move.player_id # current_player_index
    \/ move.piece_type \notin remaining_pieces[move.player_id]
    \/ ~ GeometricallyLegal(move)

C8_RejectedMoveChangesNothing ==
    [][ \A move \in Moves :
          ( /\ call'.op = "play_move" /\ call'.by = move.player_id
            /\ BadMove(move)
            /\ play_move(move) ) =>
            /\ call'.ret # "ok"
            /\ UNCHANGED << grid, remaining_pieces, has_passed,
                            last_piece_was_monomino, move_history,
                            current_player_index, game_finished, status >> ]_vars

\* Mid-game, the player to move has just had a move turned down by the
\* placement rules.
C8_Witness ==
    /\ call.op = "play_move" /\ call.ret = "placement rejected"
    /\ move_history # << >>
    /\ status = IN_PROGRESS

(***************************************************************************)
(* C9.  Every move get_valid_moves() returns for the current player of an  *)
(* IN_PROGRESS game is accepted by play_move, and playing it removes       *)
(* exactly that piece type from that player's remaining set (one piece     *)
(* fewer), leaves the other players' sets alone and appends exactly that   *)
(* move to the history.                                                    *)
(***************************************************************************)
C9_ValidMovesAreAccepted ==
    [][ \A move \in CurrentValidMoves :
          (status = IN_PROGRESS /\ play_move(move)) =>
            /\ call'.ret = "ok"
            /\ remaining_pieces' =
                 [ remaining_pieces EXCEPT
                     ![current_player_index] = @ \ { move.piece_type } ]
            /\ Cardinality(remaining_pieces'[current_player_index])
                 = Cardinality(remaining_pieces[current_player_index]) - 1
            /\ move_history' = Append(move_history, move) ]_vars

\* A move has been played and the game goes on.
C9_Witness ==
    /\ call.op = "play_move" /\ call.ret = "ok"
    /\ status = IN_PROGRESS
    /\ Len(move_history) >= 2

(***************************************************************************)
(* C10.  A player's score is minus the cell count of their remaining piece *)
(* types, plus 15 if none remain, plus 5 more if none remain and the       *)
(* single-cell piece was the last piece that player placed; the 21 piece   *)
(* types have 89 cells, so every score lies in -89 .. 20.                  *)
(***************************************************************************)
RECURSIVE CellCount(_)
CellCount(pts) ==
    IF pts = {} THEN 0
    ELSE LET pt == CHOOSE x \in pts : TRUE
         IN  Cardinality(PIECE_SHAPES[pt]) + CellCount(pts \ { pt })

\* The piece type of the last move player_id made, "" if there is none.
LastPlaced(player_id) ==
    LET mine == { k \in DOMAIN move_history : move_history[k].player_id = player_id }
    IN  IF mine = {} THEN ""
        ELSE move_history[CHOOSE k \in mine : \A j \in mine : j <= k].piece_type

C10_ScoreFormula ==
    /\ CellCount(PieceType) = 89
    /\ \A p \in Players :
          /\ Scores[p] =
               (0 - CellCount(remaining_pieces[p]))
               + (IF remaining_pieces[p] = {} THEN 15 ELSE 0)
               + (IF remaining_pieces[p] = {} /\ LastPlaced(p) = "I1" THEN 5 ELSE 0)
          /\ Scores[p] >= 0 - 89
          /\ Scores[p] <= 20

\* One player has placed everything with the single-cell piece last, another
\* has placed everything with another piece last.
C10_Witness ==
    \E p, q \in Players :
        /\ remaining_pieces[p] = {} /\ Scores[p] = 20
        /\ remaining_pieces[q] = {} /\ Scores[q] = 15

(***************************************************************************)
(* C11.  get_winner returns the one player whose score is strictly the     *)
(* highest, and returns None whenever two or more players share the        *)
(* maximum score.                                                          *)
(***************************************************************************)
Winner == get_winner(Scores, num_players)

C12_FinishedGameHasWinner ==
    (\A p \in Players : has_passed[p]) =>
        status = FINISHED /\ Winner \in Players

(***************************************************************************)
(* C13.  In every reachable state Game.copy() returns a game equal to the  *)
(* original in board contents, each player's remaining pieces, passed flag *)
(* and monomino flag, current player, move history and status; afterwards  *)
(* a play_move or pass on either game leaves the other unchanged.  The     *)
(* copy builds new Player objects, whose __post_init__ refills an empty    *)
(* remaining set with all 21 piece types, so this fails for a player who   *)
(* has placed every piece.                                                 *)
(***************************************************************************)
C13_CopyIsEqualAndIndependent ==
    [][ /\ call'.op = "copy" =>
            /\ Len(copied') = 1
            /\ copied'[1].grid = grid'
            /\ copied'[1].remaining_pieces = remaining_pieces'
            /\ copied'[1].has_passed = has_passed'
            /\ copied'[1].last_piece_was_monomino = last_piece_was_monomino'
            /\ copied'[1].current_player_index = current_player_index'
            /\ copied'[1].move_history = move_history'
            /\ copied'[1].status = status'
        /\ call'.op \in { "play_move", "pass_turn", "force_pass" } =>
            copied' = copied
        /\ call'.op \in { "copy.play_move", "copy.pass_turn" } =>
            ThisGame' = ThisGame ]_vars

(***************************************************************************)
(* C14.  For every supported board size S and every move m of the current  *)
(* player that lies on the board (as every legal move does),               *)
(* encode_action(m) lies in 0 .. 21*8*S*S - 1 and                          *)
(* decode_action(encode_action(m)) is exactly m.                           *)
(***************************************************************************)
C14_EncodeDecodeRoundTrip ==
    (args # << >> /\ result # << >>) =>
        /\ result[1] >= 0
        /\ result[1] < 21 * 8 * size * size
        /\ result[2].outcome = "Move"
        /\ result[2].move = args[1]

\* A five-cell piece in its last orientation, anchored off the origin on the
\* 20 x 20 board for the second player, has made the round trip.
C14_Witness ==
    /\ args # << >> /\ result # << >>
    /\ size = 20 /\ current_player_index = 1
    /\ args[1].piece_type = "F" /\ args[1].orientation = 7
    /\ args[1].row = 17 /\ args[1].col = 3

(***************************************************************************)
(* C15.  decode_action returns None, and does not raise, for every action  *)
(* id whose piece index is outside 0..20 or whose orientation slot is at   *)
(* or beyond the orientation count of its piece type.                      *)
(***************************************************************************)
PieceIndexOf(action) == action \div (MAX_ORIENTATIONS * size * size)

OrientationSlotOf(action) ==
    (action % (MAX_ORIENTATIONS * size * size)) \div (size * size)

Unmapped(action) ==
    \/ PieceIndexOf(action) \notin 0..(num_piece_types - 1)
    \/ OrientationSlotOf(action)
           >= num_orientations(PieceTypeOrder[PieceIndexOf(action) + 1])

C15_UnmappedIdDecodesToNone ==
    (args # << >> /\ result # << >> /\ Unmapped(args[1])) =>
        result[1].outcome = "None"

(***************************************************************************)
(* C16.  In every reachable state the action mask is True at exactly the   *)
(* encodings of the current player's legal moves: distinct legal moves get *)
(* distinct ids, there are as many True entries as legal moves, every True *)
(* id decodes to a move that play_move accepts and no False id does.       *)
(***************************************************************************)
CurrentMask ==
    get_action_mask(grid, size, remaining_pieces, move_history,
                    current_player_index)

\* Action id a decodes to a Move that play_move accepts in this state.
DecodesToAccepted(a) ==
    /\ decode_action(a, size, current_player_index).outcome = "Move"
    /\ is_valid_move(grid, size, remaining_pieces, move_history,
                     current_player_index,
                     decode_action(a, size, current_player_index).move)

MaskMatches(mask, legal) ==
    /\ mask = { encode_action(move, size) : move \in legal }
    /\ \A m1 \in legal, m2 \in legal :
           encode_action(m1, size) = encode_action(m2, size) => m1 = m2
    /\ Cardinality(mask) = Cardinality(legal)
    /\ \A a \in 0..(get_action_space_size(size) - 1) :
           a \in mask <=> DecodesToAccepted(a)

C16_MaskIsExactlyLegalMoves == MaskMatches(CurrentMask, CurrentValidMoves)

\* A state after at least two moves in which the player to move has several
\* legal moves, so that the mask has True and False entries to compare.
C16_Witness ==
    /\ Len(move_history) >= 2
    /\ Cardinality(CurrentMask) >= 2
    /\ MaskMatches(CurrentMask, CurrentValidMoves)

(***************************************************************************)
(* C17.  When the player to move has no legal action (the mask is all      *)
(* False) and the sentinel action 0 is given to BlokusEnv.step, the step   *)
(* is a forced pass: no exception, the player's turn is passed, and the    *)
(* step is not treated as an illegal move that ends the episode.           *)
(***************************************************************************)
C17_SentinelIsForcedPass ==
    [][ ( /\ env # << >>
          /\ env.game = "Game"
          /\ CurrentMask = {}
          /\ step(SentinelAction) )
        => /\ env'.ret.raised = "none"
           /\ env'.ret.valid_action
           /\ ~ env'.ret.penalty
           /\ has_passed'[current_player_index] ]_vars

(***************************************************************************)
(* C18.  select_action (the DQN agent on the exploring and on the greedy   *)
(* branch, and the random agent) returns an action whose mask bit is True  *)
(* whenever the mask has a True bit, and the sentinel action 0 when the    *)
(* mask is all False.                                                      *)
(***************************************************************************)
C18_SelectedActionIsMasked ==
    (args # << >> /\ result # << >>) =>
        IF \E a \in DOMAIN args[1].action_mask : args[1].action_mask[a]
        THEN args[1].action_mask[result[1]]
        ELSE result[1] = 0

(***************************************************************************)
(* C19.  After any k pushes to a ReplayBuffer of capacity C the buffer     *)
(* holds exactly the last min(k, C) pushed transitions in push order: its  *)
(* length never exceeds C, and a push on a full buffer evicts the oldest   *)
(* entry and nothing else.                                                 *)
(***************************************************************************)
LastPushed(pushes, n) == SubSeq(pushes, Len(pushes) - n + 1, Len(pushes))

C19_BufferHoldsLastPushes ==
    buffer # << >> =>
        /\ Len(buffer.buffer) <= buffer.capacity
        /\ Len(buffer.buffer) =
               (IF Len(buffer.pushes) < buffer.capacity
                THEN Len(buffer.pushes) ELSE buffer.capacity)
        /\ buffer.buffer = LastPushed(buffer.pushes, Len(buffer.buffer))

\* A buffer of capacity 2 after four pushes, the evicted ones differing from
\* the ones kept.
C19_Witness ==
    /\ buffer # << >>
    /\ buffer.capacity = 2
    /\ buffer.pushes = << 1, 1, 2, 1 >>
    /\ buffer.buffer = << 2, 1 >>

(***************************************************************************)
(* C20.  ReplayBuffer.sample(n) returns exactly min(n, current size)       *)
(* entries, each taken from a distinct slot of the buffer's current        *)
(* contents, and leaves the buffer unchanged.                              *)
(***************************************************************************)
C20_SampleIsDistinctSlots ==
    [][ (buffer # << >> /\ call'.op = "sample")
        => /\ Len(result'[1].batch) =
                  (IF call'.by < Len(buffer.buffer)
                   THEN call'.by ELSE Len(buffer.buffer))
           /\ Len(result'[1].slots) = Len(result'[1].batch)
           /\ \A i \in DOMAIN result'[1].slots :
                  /\ result'[1].slots[i] \in 1..Len(buffer.buffer)
                  /\ result'[1].batch[i] = buffer.buffer[result'[1].slots[i]]
                  /\ \A j \in DOMAIN result'[1].slots :
                         result'[1].slots[i] = result'[1].slots[j] => i = j
           /\ buffer' = buffer ]_vars

\* A sample of more than the buffer holds, from a buffer that has already
\* evicted a transition: every slot is returned once.
C20_Witness ==
    /\ buffer # << >>
    /\ call.op = "sample"
    /\ call.by = 4
    /\ buffer.capacity = 3
    /\ Len(buffer.pushes) = 4
    /\ result # << >>
    /\ Len(result[1].batch) = 3
    /\ result[1].slots = << 3, 1, 2 >>

(***************************************************************************)
(* C21.  DQNAgent.update() is a no-op while the buffer holds fewer than    *)
(* batch_size transitions: it returns an empty result and changes neither  *)
(* steps_done, the buffer, nor either network.  Once the buffer holds at   *)
(* least batch_size, each update() increments steps_done by exactly one    *)
(* and leaves the buffer contents unchanged.                               *)
(***************************************************************************)
C21_UpdateNoOpUntilFullBatch ==
    [][ (agent # << >> /\ call'.op = "update")
        => IF Len(buffer.buffer) < agent.batch_size
           THEN /\ result'[1].metrics = {}
                /\ agent' = agent
                /\ buffer' = buffer
           ELSE /\ agent'.steps_done = agent.steps_done + 1
                /\ buffer'.buffer = buffer.buffer ]_vars

\* Two updates done on a buffer that holds exactly one batch of two and has
\* already evicted a transition.
C21_Witness ==
    /\ agent # << >>
    /\ call.op = "update"
    /\ agent.steps_done = 2
    /\ agent.batch_size = 2
    /\ buffer.capacity = 2
    /\ Len(buffer.pushes) = 3
    /\ result[1].metrics # {}

(***************************************************************************)
(* C22.  After n calls to decay_epsilon, epsilon equals                    *)
(* start + (floor - start) * min(1, n / decay_episodes): it is             *)
(* non-increasing in n, never below the floor, and equal to the floor for  *)
(* every n at or beyond decay_episodes.                                    *)
(***************************************************************************)
\* start + (floor - start) * min(1, n / decay_episodes), over the
\* denominator decay_episodes.
ExpectedEpsilon(n) ==
    Frac(agent.epsilon_start * agent.epsilon_decay
           + (agent.epsilon_end - agent.epsilon_start)
               * (IF n < agent.epsilon_decay THEN n ELSE agent.epsilon_decay),
         agent.epsilon_decay)

InUnitInterval(x) == x.den > 0 /\ 0 <= x.num /\ x.num <= x.den

AllInUnitInterval(obs) == \A i \in DOMAIN obs : InUnitInterval(obs[i])

C23_ObservationInUnitInterval ==
    (env # << >> /\ env.game = "Game") =>
        /\ AllInUnitInterval(_get_obs)
        /\ \A p \in Players :
               AllInUnitInterval(create_observation(ThisGame, env.game_history, p))

\* The last of three players to move, on a board with two history snapshots
\* and pieces already placed.
C23_Witness ==
    /\ env # << >> /\ env.game = "Game"
    /\ num_players = 3 /\ current_player_index = 2
    /\ Len(env.game_history) = 2
    /\ Len(move_history) >= 2
    /\ _get_obs[<< 0, 0, 46 >>] = Frac(2, 3)
    /\ _get_obs[<< 0, 0, 16 >>].num > 0

(***************************************************************************)
(* C24.  Along an episode the shaping terms                                *)
(* gamma * potential(after) - potential(before) that a player receives     *)
(* over its successive steps telescope to one potential difference between *)
(* the boundary states: the potential the player is left with after one of *)
(* its steps is the potential its next step starts from, so that the two   *)
(* cancel.                                                                 *)
(***************************************************************************)
\* The snapshot h was taken right after player p's latest move: p made the
\* last move in h and none of the moves played since.
TakenAfterLatestMoveOf(p, h) ==
    /\ Len(h.move_history) >= 1
    /\ Len(h.move_history) <= Len(move_history)
    /\ h.move_history[Len(h.move_history)].player_id = p
    /\ \A i \in (Len(h.move_history) + 1)..Len(move_history) :
           move_history[i].player_id # p

C24_ShapingTelescopes ==
    (env # << >> /\ env.game = "Game" /\ CurrentValidMoves # {}) =>
        \A k \in DOMAIN env.game_history :
            TakenAfterLatestMoveOf(current_player_index, env.game_history[k]) =>
                potential(ThisGame, current_player_index)
                    = potential(env.game_history[k], current_player_index)

(***************************************************************************)
(* C25.  The number of distinct orientations generated per piece type is 1 *)
(* for the monomino, 2 for the domino, 1 for the square tetromino, 1 for   *)
(* the X pentomino, 4 for the Z pentomino and 8 for every other piece      *)
(* type.                                                                   *)
(***************************************************************************)
\* The call of _generate_all_orientations has returned its list.
OrientationsReturned == result # << >> /\ result.returned

ClaimedOrientationCount(piece_type) ==
    CASE piece_type = "I1" -> 1
      [] piece_type = "I2" -> 2
      [] piece_type = "O4" -> 1
      [] piece_type = "X"  -> 1
      [] piece_type = "Z"  -> 4
      [] OTHER -> 8

C25_OrientationCountsAsClaimed ==
    OrientationsReturned =>
        /\ Len(result.orientations) = ClaimedOrientationCount(args.piece_type)
        /\ num_orientations(args.piece_type)
               = ClaimedOrientationCount(args.piece_type)

\* C25 as amended: 1 for I1, O4 and X; 2 for I2, I3, I4 and I5; 4 for L3, T4,
\* S4, T5, U, V, W and Z; 8 for L4, F, L5, N, P and Y.
OrientationCount(piece_type) ==
    CASE piece_type \in { "I1", "O4", "X" } -> 1
      [] piece_type \in { "I2", "I3", "I4", "I5" } -> 2
      [] piece_type \in { "L3", "T4", "S4", "T5", "U", "V", "W", "Z" } -> 4
      [] piece_type \in { "L4", "F", "L5", "N", "P", "Y" } -> 8

C25_OrientationCounts ==
    OrientationsReturned =>
        /\ Len(result.orientations) = OrientationCount(args.piece_type)
        /\ num_orientations(args.piece_type) = OrientationCount(args.piece_type)
        /\ \A i, j \in DOMAIN result.orientations :
               result.orientations[i] = result.orientations[j] => i = j

\* The orientations of a piece of each count have been generated.
C25_Witness ==
    /\ OrientationsReturned
    /\ args.piece_type = "I3"
    /\ Len(result.orientations) = 2

(***************************************************************************)
(* C27.  Constructing a game with a player count outside 2 to 4, or with a *)
(* starting player that is out of range or matches no player, fails at     *)
(* construction with an error; the bad value is never replaced by a        *)
(* default, and every count from 2 to 4 with a starting player among the   *)
(* players is accepted, that player being the first to play.               *)
(***************************************************************************)
\* The configuration handed to the constructor that was called.
ValidPlayerCount == call.count \in 2..4

StartingPlayerPosition ==
    IF call.op = "Game" THEN call.starting_player + 1
    ELSE IF \E i \in DOMAIN call.player_ids :
                call.player_ids[i] = call.starting_player
         THEN CHOOSE i \in DOMAIN call.player_ids :
                  call.player_ids[i] = call.starting_player
         ELSE 0

ValidStartingPlayer == StartingPlayerPosition \in 1..call.count

C27_InvalidConfigurationFails ==
    call.op \in { "create_standard_game", "create_from_config", "Game" } =>
        IF ValidPlayerCount /\ ValidStartingPlayer
        THEN /\ result.raised = "None"
             /\ num_players = call.count
             /\ current_player_index = StartingPlayerPosition - 1
        ELSE result.raised = "ValueError"

(***************************************************************************)
(* C28.  is_valid_move and play_move given a move whose player_id is not   *)
(* the index of a player of the game return False, a rejection, rather     *)
(* than raise, and leave the game unchanged.                               *)
(***************************************************************************)
C28_ForeignPlayerIsRejected ==
    [][ (/\ call'.op \in { "is_valid_move", "play_move" }
         /\ call'.by \notin Players)
        => /\ call'.ret \in { "piece not available", "not current player",
                              "placement rejected", "board placement failed" }
           /\ UNCHANGED << size, grid, num_players, remaining_pieces,
                           has_passed, last_piece_was_monomino,
                           current_player_index, game_finished, move_history,
                           status >> ]_vars

(***************************************************************************)
(* C29.  BlokusEnv.step with an action that is masked out or does not      *)
(* decode to a move returns terminated = True, truncated = False, the      *)
(* penalty of -10 and valid_action = False, and leaves the game, the       *)
(* history snapshots and the step counter unchanged.                       *)
(***************************************************************************)
\* action_masks()[action], for the ids a numpy array of the size of the
\* action space can be indexed with.
MaskBit(action) ==
    /\ 0 - get_action_space_size(size) <= action
    /\ action < get_action_space_size(size)
    /\ (action % get_action_space_size(size)) \in CurrentMask

InvalidAction(action) ==
    \/ ~ MaskBit(action)
    \/ decode_action(action, size, current_player_index).outcome # "Move"

C29_InvalidActionEndsEpisode ==
    [][ \A action \in AnyActions :
            ( /\ env # << >>
              /\ env.game = "Game"
              /\ InvalidAction(action)
              /\ step(action) )
            => /\ env'.ret = step_invalid
               /\ env'.game = env.game
               /\ env'.game_history = env.game_history
               /\ env'.step_count = env.step_count
               /\ UNCHANGED << size, grid, num_players, remaining_pieces,
                               has_passed, last_piece_was_monomino,
                               current_player_index, game_finished,
                               move_history, status >> ]_vars

(***************************************************************************)
(* C30.  In every state reached from a new game by play_move, pass_turn    *)
(* and force_pass, status is FINISHED exactly when every player has        *)
(* passed; FINISHED is terminal (status never returns to IN_PROGRESS), and *)
(* a player's passed flag, once set, is never cleared.                     *)
(***************************************************************************)
EveryPlayerPassed == \A p \in Players : has_passed[p]

C30_FinishedIffAllPassed ==
    /\ [](status = FINISHED <=> EveryPlayerPassed)
    /\ [][ /\ status = FINISHED => status' = FINISHED
           /\ \A p \in Players : has_passed[p] => has_passed'[p] ]_vars

\* The game was finished by a move: the player who made it was the last one
\* still playing and was left without a legal move.
C30_Witness ==
    /\ status = FINISHED
    /\ EveryPlayerPassed
    /\ call.op = "play_move"
    /\ call.ret = "ok"

(***************************************************************************)
(* C31.  If at every turn the current player plays one of their legal      *)
(* moves when one exists and passes otherwise, the game reaches FINISHED   *)
(* after finitely many turns, bounded by one placement per piece held plus *)
(* one pass per player: every turn uses up a piece or a player's one pass, *)
(* of which there are num_players * (pieces per player + 1) at the start.  *)
(***************************************************************************)
RECURSIVE PiecesHeld(_)
PiecesHeld(ps) ==
    IF ps = {} THEN 0
    ELSE LET p == CHOOSE x \in ps : TRUE
         IN  Cardinality(remaining_pieces[p]) + PiecesHeld(ps \ { p })

\* The placements and passes the players have left.
TurnsLeft == PiecesHeld(Players) + Cardinality({ p \in Players : ~ has_passed[p] })

C31_PolicyGameFinishes ==
    /\ <>(status = FINISHED)
    /\ [](TurnsLeft <= num_players * (NumPieceTypes + 1))
    /\ [][ TurnsLeft' < TurnsLeft ]_vars

\* A game played to the end in which a player placed a piece and a player
\* without a legal move passed.
C31_Witness ==
    /\ status = FINISHED
    /\ call.op \in { "pass_turn", "force_pass" }
    /\ Len(move_history) >= 2

(***************************************************************************)
(* C32.  For any interleaving of place_piece calls, successful or failed,  *)
(* with player-cells, player-corners and player-edges queries on one       *)
(* board, each query returns what a fresh computation from the current     *)
(* grid returns: the corners are the empty in-bounds cells diagonally      *)
(* adjacent to an owned cell and orthogonally adjacent to none (the        *)
(* starting corner when the player owns nothing); no stale cached value is *)
(* served or kept.                                                         *)
(***************************************************************************)
BoardCells == (0..(size - 1)) \X (0..(size - 1))

OwnedCells(p) == { rc \in BoardCells : grid[rc] = p + 1 }

FreshCorners(p) ==
    IF OwnedCells(p) = {}
    THEN get_starting_corners(size, p)
    ELSE { rc \in BoardCells :
             /\ grid[rc] = 0
             /\ \E o \in OwnedCells(p) : DiagonalAdjacent(rc, o)
             /\ ~ \E o \in OwnedCells(p) : EdgeAdjacent(rc, o) }

FreshEdges(p) ==
    { rc \in BoardCells \ OwnedCells(p) :
        \E o \in OwnedCells(p) : EdgeAdjacent(rc, o) }

C32_QueriesAreFresh ==
    /\ call.op = "get_player_cells" => result.returned = OwnedCells(call.by)
    /\ call.op = "get_player_corners" => result.returned = FreshCorners(call.by)
    /\ call.op = "get_player_edges" => result.returned = FreshEdges(call.by)
    /\ \A p \in DOMAIN result._cells_cache :
           result._cells_cache[p] = OwnedCells(p)
    /\ \A p \in DOMAIN result._corners_cache :
           result._corners_cache[p] = FreshCorners(p)
    /\ \A p \in DOMAIN result._edges_cache :
           result._edges_cache[p] = FreshEdges(p)

\* A corners query answered from the cache, on a board where both players
\* have cells and the player asked about still has a corner.
C32_Witness ==
    /\ call.op = "get_player_corners"
    /\ call.ret = "cached"
    /\ result.returned # {}
    /\ \A p \in Players : OwnedCells(p) # {}

(***************************************************************************)
(* C33.  For every reachable board, player, piece orientation and          *)
(* first-move flag, get_valid_placements returns exactly the anchor        *)
(* positions (row, col), over the whole board and the ring around it, for  *)
(* which is_valid_placement holds: the corner-anchored search misses no    *)
(* valid placement and returns no invalid one.                             *)
(***************************************************************************)
\* Every anchor on the board and in the ring of width one around it.
AllAnchors == ((0 - 1)..size) \X ((0 - 1)..size)

\* The orientations of the piece types the players of the episode hold.
EpisodePieces ==
    UNION { { PIECES[PieceTypeOrder[k]][i] : i \in DOMAIN PIECES[PieceTypeOrder[k]] } :
              k \in 1..EpisodePieceTypes }

C33_ValidPlacementsAreExact ==
    \A player_id \in Players, piece \in EpisodePieces, is_first \in BOOLEAN :
        get_valid_placements(grid, size, piece, player_id, is_first)
            = { pos \in AllAnchors :
                  is_valid_placement(grid, size, piece, pos[1], pos[2],
                                     player_id, is_first) }

\* A player with cells on the board has a valid placement whose anchor is not
\* one of the player's corners: another cell of the piece lies on the corner.
C33_Witness ==
    \E player_id \in Players, piece \in EpisodePieces :
        /\ get_player_cells(grid, player_id) # {}
        /\ get_valid_placements(grid, size, piece, player_id, FALSE)
               \ get_player_corners(grid, size, player_id) # {}

(***************************************************************************)
(* C34.  In every reachable state the number of cells each player owns on  *)
(* the board equals the squares of the pieces the player was constructed   *)
(* with (89 for the full set) minus the player's remaining squares, and    *)
(* count_occupied equals the total size of the pieces in the move history: *)
(* it grows by exactly the piece's cell count on each successful move and  *)
(* does not change on a rejected move or a pass.                           *)
(***************************************************************************)
\* The total size of the pieces of the first k moves of the history.
RECURSIVE HistorySquares(_)
HistorySquares(k) ==
    IF k = 0 THEN 0
    ELSE Cardinality(PIECE_SHAPES[move_history[k].piece_type])
             + HistorySquares(k - 1)

C34_CellsMatchPiecesPlayed ==
    /\ [](/\ \A p \in Players :
                Cardinality({ rc \in DOMAIN grid : grid[rc] = p + 1 })
                    = CellCount(InitialPieces)
                          - squares_remaining(remaining_pieces, p)
          /\ count_occupied(grid) = HistorySquares(Len(move_history)))
    /\ [][ IF call'.op = "play_move" /\ call'.ret = "ok" /\ move_history' # move_history
           THEN count_occupied(grid')
                    = count_occupied(grid)
                          + Cardinality(CellsOfMove(move_history'[Len(move_history')]))
           ELSE count_occupied(grid') = count_occupied(grid) ]_vars

\* Two players have placed pieces and the last call, a rejected move or a
\* pass, left the board as it was.
C34_Witness ==
    /\ Len(move_history) >= 2
    /\ \E p, q \in Players :
           p # q /\ get_player_cells(grid, p) # {} /\ get_player_cells(grid, q) # {}
    /\ count_occupied(grid) >= 3
    /\ \/ call.op = "play_move" /\ call.ret # "ok"
       \/ call.op \in { "pass_turn", "force_pass" }

(***************************************************************************)
(* C35.  In every reachable state and for every player p, is_first_move(p) *)
(* (no move by p in the history) holds exactly when p owns no cell on the  *)
(* board, so the validator and the move generator, which also look at the  *)
(* cells, decide as the observation encoder and the reward function do     *)
(* from the history alone.                                                 *)
(***************************************************************************)
C35_FirstMoveIffNoCells ==
    \A p \in Players :
        LET is_first == is_first_move(move_history, p)
        IN  /\ is_first <=> get_player_cells(grid, p) = {}
            /\ \A piece \in EpisodePieces :
                   /\ get_valid_placements(grid, size, piece, p, is_first)
                          = get_valid_placements(grid, size, piece, p, FALSE)
                   /\ \A row \in Anchors, col \in Anchors :
                          get_placement_rejection_reason(grid, size, piece, row, col,
                                                         p, is_first)
                              = get_placement_rejection_reason(grid, size, piece, row,
                                                               col, p, FALSE)

\* One player has moved and owns cells while another, who passed, has neither
\* a move in the history nor a cell.
C35_Witness ==
    \E p, q \in Players :
        /\ ~ is_first_move(move_history, p) /\ get_player_cells(grid, p) # {}
        /\ is_first_move(move_history, q) /\ get_player_cells(grid, q) = {}
        /\ has_passed[q]
        /\ Len(move_history) >= 2

(***************************************************************************)
(* C36.  In every FINISHED state reached by play, the three winner reports *)
(* agree: GameManager.get_winner(), the 'winner' entry of BlokusEnv's info *)
(* and Game.get_winner() name the same player, or all report no winner     *)
(* when the top score is tied.  GameManager.get_winner compares the stored *)
(* Player.score, which play never writes, and the info entry is the        *)
(* argmax of the scores, which names the first of tied players.            *)
(***************************************************************************)
C36_WinnerReportsAgree ==
    status = FINISHED =>
        /\ GameManager_get_winner(has_passed, num_players, game_finished) = Winner
        /\ _get_info_winner(status, Scores) = Winner

(***************************************************************************)
(* C37.  is_valid_move and play_move reject every move whose orientation   *)
(* id is negative or not below the piece type's actual orientation count,  *)
(* so the set of moves the engine accepts is exactly the set that          *)
(* encode_action and decode_action round-trip.  get_piece takes the id     *)
(* modulo the orientation count, so such a move is judged, and played, as  *)
(* the orientation it wraps round to.                                      *)
(***************************************************************************)
RoundTrips(move) ==
    LET decoded == decode_action(encode_action(move, size), size, move.player_id)
    IN  decoded.outcome = "Move" /\ decoded.move = move

C37_OutOfRangeOrientationIsRejected ==
    /\ \A move \in WrappedMoves :
           ~ is_valid_move(grid, size, remaining_pieces, move_history,
                           current_player_index, move)
    /\ call.op = "is_valid_move" => call.ret # "valid"
    /\ \A i \in DOMAIN move_history :
           /\ move_history[i].orientation
                  \in 0..(num_orientations(move_history[i].piece_type) - 1)
           /\ RoundTrips(move_history[i])

(***************************************************************************)
(* C38.  decode_action returns no move for every integer outside           *)
(* [0, 21*8*S*S), negative ids included, so BlokusEnv.step can never place *)
(* a piece from an id outside the action space.  decode_action tests only  *)
(* piece_idx >= 21: a negative piece index picks the piece type from the   *)
(* end of the list, as C15 reports, and step plays the move it gets.       *)
(***************************************************************************)
OutsideActionSpace(action) ==
    action < 0 \/ action >= get_action_space_size(size)

C38_OutsideIdsDecodeToNoMove ==
    /\ [](\A action \in AnyActions :
              OutsideActionSpace(action) =>
                  decode_action(action, size, current_player_index).outcome = "None")
    /\ [][ \A action \in AnyActions :
               ( /\ env # << >>
                 /\ env.game = "Game"
                 /\ OutsideActionSpace(action)
                 /\ step(action) )
               => /\ grid' = grid
                  /\ move_history' = move_history
                  /\ remaining_pieces' = remaining_pieces ]_vars

(***************************************************************************)
(* C39.  Every BlokusEnv episode ends after at most max_steps calls to     *)
(* step that play a move plus one more call, whatever actions are          *)
(* supplied: each step either terminates the episode or increments         *)
(* step_count, and the step that reaches max_steps is truncated; hence the *)
(* loops of train_episode and Evaluator._play_game always exit.  A step    *)
(* whose id lies below minus the size of the action space raises the       *)
(* IndexError of decode_action: it returns nothing and counts nothing.     *)
(***************************************************************************)
C39_StepTerminatesOrCounts ==
    /\ [](env # << >> => env.step_count <= max_steps)
    /\ [][ \A action \in AnyActions :
               ( /\ env # << >>
                 /\ env.game = "Game"
                 /\ step(action) )
               => /\ env'.ret.raised = "none"
                  /\ \/ env'.ret.terminated
                     \/ env'.step_count = env.step_count + 1
                  /\ env'.step_count >= max_steps => env'.ret.truncated ]_vars

====
